---- MODULE Spec2Model ----
(***************************************************************************)
(* cartola-mensagens: credential lifecycle, resilient API client,          *)
(* round-points cache and monthly aggregation.                             *)
(*                                                                         *)
(* The repository holds six variants of the same server.  They are named   *)
(* here by the file and the order in which they appear:                    *)
(*   "srvA"  src/server.js        lines    1- 494  (OIDC refresh, http)     *)
(*   "srvB"  src/server.js        lines  496- 762  (static BEARER)          *)
(*   "srvC"  src/server.js        lines  764-1185  (refresh + cache)        *)
(*   "partA" src/unnamed/part_000 lines    1- 471  (axios, 30 s margin)     *)
(*   "partB" src/unnamed/part_000 lines  473- 942  (static BEARER + cache)  *)
(*   "partC" src/unnamed/part_000 lines  944-1279  (axios, 60 s margin)     *)
(*                                                                         *)
(* Time is in milliseconds (Date.now()).  A handler runs atomically from   *)
(* one network await to the next: JavaScript is single-threaded and the    *)
(* continuations of an awaited async function run in the same microtask    *)
(* drain as its completion.                                                *)
(***************************************************************************)
EXTENDS Integers, Sequences, FiniteSets, TLC

\* ------------------------------------------------------------------ bounds
MaxCallers == 2      \* concurrent requests
MaxTicks == 1        \* clock advances in the client specifications
MaxNowSteps == 3     \* SpecValid: current time is 0..MaxNowSteps half seconds
MaxExpSteps == 126   \* SpecValid: expiry instants are 0..MaxExpSteps half seconds
MaxPts == 2          \* round points are 0..MaxPts
MaxCacheTeams == 1   \* SpecCache: teams looked up
MaxCacheRounds == 1  \* SpecCache: rounds looked up
MaxLookups == 3      \* SpecCache: cached lookups per behaviour
MaxCacheTicks == 3   \* SpecCache: clock advances
MaxTeams == 2        \* SpecMensal: teams in the league
MaxRefreshTokens == 2  \* refresh credentials are 1..MaxRefreshTokens
MaxRefreshes == 2    \* SpecRefresh: refresh calls in a row
MaxTopN == 3         \* SpecMensal: PREMIADOS_TOP is in 0..MaxTopN
MaxRound == 40       \* SpecCalendar: rounds looked up are in 0..MaxRound

HalfSecond == 1000 \div 2
Callers == 1..MaxCallers
RefreshVariants == {"srvA", "srvC", "partA", "partC"}
AuthGetVariants == {"srvA", "partA", "partC"}
SmartVariants == {"srvB", "srvC", "partB"}
Variants == AuthGetVariants \cup SmartVariants

\* ------------------------------------------------------------------- state
VARIABLES
  mensal,          \* the monthly report being built
  variant,         \* which of the six servers is running
  now,             \* Date.now(), ms
  ticks,           \* how often the clock has advanced
  accessToken,     \* stored access token: [id, exp]; id 0 = null/undefined/''
  accessTokenExp,  \* stored expiry (srvA: epoch s; partA, partC: epoch ms); 0 = null
  refreshToken,    \* refresh credential: 0 = not configured
  clientId,        \* whether CARTOLA_CLIENT_ID is set in the environment
  bearer,          \* srvB, partB: whether the static BEARER is configured
  call,            \* per caller: position and locals of its request
  raced,           \* a caller found the token invalid while a refresh was in flight
  nextTokenId,     \* identity of the next token the identity provider issues
  checkResult,     \* SpecValid: outcome of the validity check
  cache,           \* the Map of the round cache: key -> entry, or NoEntry
  look,            \* per caller: position and locals of its cached lookup
  lastOk,          \* per lookup function and key: when it last returned normally
  lookups          \* cached lookups started so far

clientVars == <<accessToken, accessTokenExp, refreshToken, clientId, bearer, call,
                raced, nextTokenId, checkResult>>
cacheVars == <<cache, look, lastOk, lookups>>
vars == <<variant, now, ticks, clientVars, cacheVars, mensal>>

\* A token: id identifies the string, exp is the exp claim of its JWT payload
\* in seconds, 0 when the token does not decode to a payload with exp.
NoExp == 0
NoToken == [id |-> 0, exp |-> NoExp]

\* ------------------------------------------------------- validity checks
nowEpochSec(t) == t \div 1000

\* srvA ensureAccessToken: the condition under which it refreshes
ensureAccessTokenRefreshes(tok, exp, t) ==
  tok.id = 0 \/ exp = NoExp \/ exp < nowEpochSec(t) + 60

tokenExpSeconds(tok) == tok.exp

isTokenValid_NoMargin(tok, t) ==
  /\ tok.id # 0
  /\ tokenExpSeconds(tok) # NoExp
  /\ tokenExpSeconds(tok) > nowEpochSec(t)

\* srvC isTokenValid
isTokenValid(tok, t) ==
  /\ tok.id # 0
  /\ tokenExpSeconds(tok) # NoExp
  /\ tokenExpSeconds(tok) > nowEpochSec(t) + 60

\* partA accessTokenValid
accessTokenValid(tok, expMs, t) ==
  /\ ~(tok.id = 0 \/ expMs = NoExp)
  /\ t < expMs - 30 * 1000

\* partC isAccessTokenValid
isAccessTokenValid(tok, expMs, t) ==
  /\ ~(tok.id = 0 \/ expMs = NoExp)
  /\ t < expMs - 60000

TokenValid_Never(v, tok, exp, t) == FALSE

\* The check each variant's ensure-valid-token operation makes.
TokenValid(v, tok, exp, t) ==
  CASE v = "srvA" -> ~ensureAccessTokenRefreshes(tok, exp, t)
    [] v = "srvC" -> isTokenValid(tok, t)
    [] v = "partA" -> accessTokenValid(tok, exp, t)
    [] v = "partC" -> isAccessTokenValid(tok, exp, t)
    [] OTHER -> FALSE

\* ------------------------------------------------------------ the callers
NoResult == [kind |-> "none", status |-> 0, req |-> 0, parsed |-> TRUE]
IdleCall == [pc |-> "idle", auth |-> FALSE, cand |-> 0, reqs |-> <<>>, idp |-> 0, idpEnsure |-> 0,
             idpForced |-> 0, sawInvalid |-> FALSE, forcedTok |-> 0,
             seenTok |-> NoToken, seenExp |-> NoExp, seenAt |-> 0,
             idpClient |-> "none", rtSent |-> 0,
             lastIdp |-> "none",
             result |-> NoResult]
OffCall == [IdleCall EXCEPT !.pc = "off"]

IdpPcs == {"idp1", "idpF", "idp2"}
GetPcs == {"getPub", "getLiga", "get1", "get2"}

\* What the upstream API can answer to a GET.
GetResponses ==
  {[status |-> 200, json |-> TRUE], [status |-> 200, json |-> FALSE],
   [status |-> 401, json |-> TRUE], [status |-> 403, json |-> TRUE],
   [status |-> 500, json |-> TRUE]}

\* What the identity provider can answer to a refresh at time t; n is the
\* identity of the token it would issue.  Lifetimes are in seconds.
Lifetimes == {30, 3600}
IdpBodies(t, n) ==
  {[ok |-> TRUE, tok |-> NoToken, expires_in |-> 0]}
  \cup {[ok |-> TRUE, tok |-> [id |-> n, exp |-> nowEpochSec(t) + l], expires_in |-> l] :
          l \in Lifetimes}
  \cup {[ok |-> TRUE, tok |-> [id |-> n, exp |-> NoExp], expires_in |-> e] :
          e \in Lifetimes \cup {0}}

\* The refresh_token field of a 2xx body: absent (id 0), or a new credential
\* that is a JWT ("eyJ...") or an opaque string; rt is the credential sent.
NoRt == [id |-> 0, jwt |-> FALSE]
RefreshTokensOffered(rt) ==
  {NoRt} \cup (IF rt < MaxRefreshTokens
               THEN {[id |-> rt + 1, jwt |-> b] : b \in BOOLEAN}
               ELSE {})

IdpResponses(t, n, rt) ==
  {[ok |-> FALSE, tok |-> NoToken, expires_in |-> 0, refresh_token |-> NoRt]}
  \cup {[ok |-> b.ok, tok |-> b.tok, expires_in |-> b.expires_in, refresh_token |-> r] :
          b \in IdpBodies(t, n), r \in RefreshTokensOffered(rt)}

Finish(c, res) == [c EXCEPT !.pc = "done", !.result = res]
Failure(kind, status, n) == [kind |-> kind, status |-> status, req |-> n, parsed |-> TRUE]

\* fetch(url, {headers}): the request leaves, the caller awaits the response.
SendGet(c, pcNext, auth, tokId) ==
  [c EXCEPT !.pc = pcNext,
            !.reqs = Append(@, [auth |-> auth, token |-> tokId, status |-> 0,
                                json |-> TRUE, ensured |-> FALSE])]

\* CLIENT_ID as the module computes it from the environment:
\*   srvA, partC  process.env.CARTOLA_CLIENT_ID || "cartola-web@apps.globoid"
\*   partA        process.env.CARTOLA_CLIENT_ID || ""
\*   srvC         (process.env.CARTOLA_CLIENT_ID || '').trim()
CLIENT_ID(v) ==
  IF clientId THEN "env"
  ELSE IF v \in {"srvA", "partC"} THEN "cartola-web@apps.globoid"
  ELSE ""

Candidates_FallbackOnly == <<"cartola-web">>

\* srvC refreshAccessTokenIfNeeded: the client ids it tries, in order
Candidates == IF CLIENT_ID("srvC") # "" THEN <<"env", "cartola-web">> ELSE <<"cartola-web">>

\* The client_id of the k-th refresh request of one refresh invocation
ClientIdSent(v, k) == IF v = "srvC" THEN Candidates[k] ELSE CLIENT_ID(v)

\* The preconditions refreshAccessToken / refreshAccessTokenIfNeeded test
\* before any request to the identity provider.
RefreshConfigured_Strict ==
  /\ variant \in RefreshVariants
  /\ refreshToken # 0
  /\ clientId

RefreshConfigured_NotAfterFailure ==
  refreshToken # 0 /\ \A q \in Callers : call[q].result.kind # "auth"

RefreshConfigured ==
  CASE variant = "srvA" -> refreshToken # 0 /\ CLIENT_ID("srvA") # ""
    [] variant = "partA" -> refreshToken # 0 /\ CLIENT_ID("partA") # ""
    [] variant = "partC" -> refreshToken # 0
    [] variant = "srvC" -> refreshToken # 0
    [] OTHER -> FALSE

\* srvC refreshAccessTokenIfNeeded: candidates = [CLIENT_ID]? ++ ['cartola-web']
NumCandidates == Len(Candidates)

\* The refresh request leaves: POST with client_id and refresh_token.
SendRefresh(c, idpPc, k) ==
  [c EXCEPT !.pc = idpPc, !.cand = k, !.idp = @ + 1,
            !.idpClient = ClientIdSent(variant, k), !.rtSent = refreshToken]

\* The GET that follows a normal return of ensureAccessToken /
\* getValidAccessToken / refreshAccessTokenIfNeeded; srvC attaches the
\* header only when accessToken is non-empty.
SendEnsured(c, pcNext, tok, exp) ==
  LET c1 == SendGet(c, pcNext, variant # "srvC" \/ tok.id # 0, tok.id) IN
  [c1 EXCEPT !.reqs[Len(c1.reqs)].ensured = TRUE]

RefreshAccepted_Always(v, r) == TRUE

\* Whether the refresh code takes the response as a success.  srvA does not
\* test for access_token.
RefreshAccepted(v, r) == r.ok /\ (v = "srvA" \/ r.tok.id # 0)

\* The expiry a successful refresh stores.
refreshedExpiry_Stale(v, r, t) == accessTokenExp

refreshedExpiry_FiveMinutes(v, r, t) ==
  CASE v = "srvA" ->
         IF r.tok.exp # NoExp THEN r.tok.exp
         ELSE IF r.expires_in # 0 THEN nowEpochSec(t) + r.expires_in
         ELSE nowEpochSec(t) + 300
    [] v \in {"partA", "partC"} ->
         IF r.tok.exp # NoExp THEN r.tok.exp * 1000
         ELSE IF r.expires_in # 0 THEN t + r.expires_in * 1000
         ELSE t + 5 * 60 * 1000
    [] OTHER -> accessTokenExp

refreshedExpiry(v, r, t) ==
  CASE v = "srvA" ->
         IF r.tok.exp # NoExp THEN r.tok.exp
         ELSE IF r.expires_in # 0 THEN nowEpochSec(t) + r.expires_in
         ELSE nowEpochSec(t) + 300
    [] v = "partA" ->
         IF r.tok.exp # NoExp THEN r.tok.exp * 1000 ELSE t + 4 * 60 * 1000
    [] v = "partC" ->
         IF r.tok.exp # NoExp THEN r.tok.exp * 1000
         ELSE IF r.expires_in # 0 THEN t + r.expires_in * 1000
         ELSE t + 10 * 60 * 1000
    [] OTHER -> accessTokenExp

\* ensureAccessToken / getValidAccessToken / refreshAccessTokenIfNeeded, then
\* the authenticated GET: with a valid token the GET leaves at once, otherwise
\* the refresh request leaves (phase: "first" before the first GET, "forced"
\* after a 401).
Ensured(c0, tok, exp, idpPc, getPc, phase) ==
  LET c == IF phase = "first"
           THEN [c0 EXCEPT !.seenTok = tok, !.seenExp = exp, !.seenAt = now]
           ELSE c0
  IN
  IF TokenValid(variant, tok, exp, now)
  THEN SendEnsured(c, getPc, tok, exp)
  ELSE IF ~RefreshConfigured
  THEN Finish(c, Failure("config", 0, 0))
  ELSE [SendRefresh(c, idpPc, 1) EXCEPT
                 !.idpEnsure = IF phase = "first" THEN @ + 1 ELSE @,
                 !.idpForced = IF phase = "forced" THEN @ + 1 ELSE @,
                 !.sawInvalid = IF phase = "first" THEN TRUE ELSE @]

\* The forced refresh after a 401: refreshAccessToken() without a validity test.
ForcedRefresh(c) ==
  IF ~RefreshConfigured
  THEN Finish(c, Failure("config", 0, 0))
  ELSE [SendRefresh(c, "idpF", 1) EXCEPT !.idpForced = @ + 1]

\* What the client hands its caller for the n-th response.
Outcome(v, resp, n) ==
  CASE v = "srvA" ->
         IF resp.status = 200
         THEN [kind |-> "ok", status |-> 200, req |-> n, parsed |-> resp.json]
         ELSE Failure("http", resp.status, n)
    [] v = "partA" ->
         [kind |-> "resp", status |-> resp.status, req |-> n, parsed |-> resp.json]
    [] v = "partC" ->
         IF resp.status = 200
         THEN [kind |-> "ok", status |-> 200, req |-> n, parsed |-> resp.json]
         ELSE Failure("http", 0, n)
    [] v \in {"srvB", "partB"} ->
         IF resp.status # 200 THEN Failure("http", resp.status, n)
         ELSE IF ~resp.json THEN Failure("parse", 200, n)
         ELSE [kind |-> "ok", status |-> 200, req |-> n, parsed |-> TRUE]
    [] OTHER ->
         IF resp.status # 200 THEN Failure("http", resp.status, n)
         ELSE IF ~resp.json THEN Failure("parse", 0, n)
         ELSE [kind |-> "ok", status |-> 200, req |-> n, parsed |-> TRUE]

\* fetchSmart: whether a credential is configured for the authenticated retry
SmartCredential ==
  IF variant = "srvC" THEN accessToken.id # 0 \/ refreshToken # 0 ELSE bearer

SmartRetriesOnAnyFailure(c, resp) ==
  LET out == Outcome(variant, resp, 1) IN
  IF out.kind = "ok" THEN Finish(c, out)
  ELSE IF SmartCredential
  THEN IF variant = "srvC"
       THEN Ensured([c EXCEPT !.auth = TRUE], accessToken, accessTokenExp,
                    "idp1", "get1", "first")
       ELSE SendGet([c EXCEPT !.auth = TRUE], "get1", TRUE, 1)
  ELSE Finish(c, out)

\* fetchSmart after the response to the request without credentials
SmartAfterPublic(c, resp) ==
  LET out == Outcome(variant, resp, 1) IN
  IF out.kind = "ok" THEN Finish(c, out)
  ELSE IF (out.status = 401 \/ out.status = 403) /\ SmartCredential
  THEN IF variant = "srvC"
       THEN Ensured([c EXCEPT !.auth = TRUE], accessToken, accessTokenExp,
                    "idp1", "get1", "first")
       ELSE SendGet([c EXCEPT !.auth = TRUE], "get1", TRUE, 1)
  ELSE Finish(c, out)

\* srvC fetchLiga after the response to the public league request: a bare
\* "catch {}" around fetchJson(publicUrl, false), then fetchJson(authUrl, true)
LigaAfterPublic(c, resp) ==
  LET out == Outcome(variant, resp, 1) IN
  IF out.kind = "ok" THEN Finish(c, out)
  ELSE Ensured([c EXCEPT !.auth = TRUE], accessToken, accessTokenExp,
               "idp1", "get1", "first")

\* After a refresh stored (tok, exp): what the awaiting code does next.
AfterRefresh(c, tok, exp) ==
  CASE c.pc = "idp1" -> SendEnsured(c, "get1", tok, exp)
    [] c.pc = "idpF" ->
         IF variant = "partA"
         THEN SendGet([c EXCEPT !.forcedTok = tok.id], "get2", TRUE, tok.id)
         ELSE Ensured([c EXCEPT !.forcedTok = tok.id], tok, exp, "idp2", "get2", "forced")
    [] OTHER -> SendEnsured(c, "get2", tok, exp)

\* The refresh credential after a 2xx response: only srvA keeps a new one,
\* and only when it starts with "eyJ"; the others hold it in a const.
rotatedRefreshToken(v, r, rt) ==
  IF v = "srvA" /\ r.refresh_token.id # 0 /\ r.refresh_token.jwt
  THEN r.refresh_token.id
  ELSE rt

\* What a call remembers of the refresh response it is processing (the
\* local `data`), until the GET that follows has been answered.
IdpKind(r) == IF ~r.ok THEN "fail" ELSE IF r.tok.id = 0 THEN "notoken" ELSE "token"
Answered(c, r) == [c EXCEPT !.lastIdp = IdpKind(r)]

\* How the client function may be called: cartolaFetchJson (srvA) takes
\* { auth } (default true); cartolaGet (partA, partC) always authenticates;
\* fetchSmart (srvB, srvC, partB) starts with fetchJson(url, false).
AuthOptions(v) ==
  CASE v = "srvA" -> BOOLEAN
    [] v \in {"partA", "partC"} -> {TRUE}
    [] OTHER -> {FALSE}

RetriesAfter401_Or403(c, resp) == resp.status \in {401, 403} /\ c.auth
RetriesAfter401_AnyRequest(c, resp) == resp.status = 401

\* "if (resp.status === 401 && auth)": refresh and retry once
RetriesAfter401(c, resp) == resp.status = 401 /\ c.auth

\* Another caller's ensure-valid-token refresh is awaiting its answer.
RefreshInFlightElsewhere(p) == \E q \in Callers \ {p} : call[q].pc = "idp1"

\* A request arrives: cartolaFetchJson(path, { auth }) / cartolaGet(path) in
\* the refreshing variants, fetchSmart(url) in the others.
Start(p) ==
  /\ call[p].pc = "idle"
  /\ \E auth \in AuthOptions(variant) :
     LET c2 == IF auth
               THEN Ensured([call[p] EXCEPT !.auth = TRUE], accessToken, accessTokenExp,
                            "idp1", "get1", "first")
               ELSE SendGet(call[p], "getPub", FALSE, 0)
     IN /\ call' = [call EXCEPT ![p] = c2]
        /\ raced' = (raced \/ (c2.pc = "idp1" /\ RefreshInFlightElsewhere(p)))
  /\ UNCHANGED <<mensal, variant, now, ticks, accessToken, accessTokenExp, refreshToken,
                 clientId, bearer, nextTokenId, checkResult, cacheVars>>

\* The identity provider answers a refresh request.
IdpReply(p) ==
  /\ call[p].pc \in IdpPcs
  /\ \E r \in IdpResponses(now, nextTokenId, call[p].rtSent) :
       LET c == Answered(call[p], r) IN
       IF ~RefreshAccepted(variant, r)
       THEN /\ UNCHANGED <<accessToken, accessTokenExp, nextTokenId, refreshToken>>
            /\ call' = [call EXCEPT ![p] =
                 IF variant = "srvC" /\ c.cand < NumCandidates
                 THEN [SendRefresh(c, c.pc, c.cand + 1) EXCEPT !.idpEnsure = @ + 1]
                 ELSE Finish(c, Failure("auth", 0, 0))]
       ELSE /\ accessToken' = r.tok
            /\ accessTokenExp' = refreshedExpiry(variant, r, now)
            /\ refreshToken' = rotatedRefreshToken(variant, r, refreshToken)
            /\ nextTokenId' = IF r.tok.id # 0 THEN nextTokenId + 1 ELSE nextTokenId
            /\ call' = [call EXCEPT ![p] =
                 AfterRefresh(c, r.tok, refreshedExpiry(variant, r, now))]
  /\ UNCHANGED <<mensal, variant, now, ticks, clientId, bearer, raced,
                 checkResult, cacheVars>>

\* The upstream API answers a GET.
GetReply(p) ==
  /\ call[p].pc \in GetPcs
  /\ \E resp \in GetResponses :
       LET c0 == call[p]
           n == Len(c0.reqs)
           c == [c0 EXCEPT !.reqs[n].status = resp.status, !.reqs[n].json = resp.json,
                           !.lastIdp = "none"]
           c2 == CASE /\ c0.pc \in {"get1", "getPub"}
                      /\ variant \in AuthGetVariants
                      /\ RetriesAfter401(c0, resp) ->
                        ForcedRefresh(c)
                   [] c0.pc = "getPub" /\ variant \in SmartVariants ->
                        SmartAfterPublic(c, resp)
                   [] c0.pc = "getLiga" -> LigaAfterPublic(c, resp)
                   [] OTHER -> Finish(c, Outcome(variant, resp, n))
       IN /\ call' = [call EXCEPT ![p] = c2]
          /\ raced' = (raced \/ (c2.pc = "idp1" /\ RefreshInFlightElsewhere(p)))
  /\ UNCHANGED <<mensal, variant, now, ticks, accessToken, accessTokenExp, refreshToken,
                 clientId, bearer, nextTokenId, checkResult, cacheVars>>

\* Time passes.
Tick ==
  /\ ticks < MaxTicks
  /\ ticks' = ticks + 1
  /\ now' = now + 3600 * 1000
  /\ UNCHANGED <<mensal, variant, clientVars, cacheVars>>

\* --------------------------------------------------------- round payloads
\* A JavaScript value as the round endpoints and the cache see it:
\*   "null"          null                  "bare"           the number val
\*   "empty"         {}                    "pontos"         {pontos: val}
\*   "pontos_null"   {pontos: null}        "pontos_rodada"  {pontos_rodada: val}
\*   "pontos.rodada" {pontos: {rodada: val}}
\*   "time.pontos"   {time: {pontos: val}}
\*   "time.pontos.rodada" {time: {pontos: {rodada: val}}}
PointValues == 0..MaxPts
ValueShapes == {"bare", "pontos", "pontos_rodada", "pontos.rodada", "time.pontos",
                "time.pontos.rodada"}
Null == [shape |-> "null", val |-> 0]
Num(n) == [shape |-> "bare", val |-> n]
Payloads ==
  {[shape |-> s, val |-> 0] : s \in {"null", "empty", "pontos_null"}}
  \cup {[shape |-> s, val |-> v] : s \in ValueShapes, v \in PointValues}

\* if (x): null and the number 0 are falsy, objects and other numbers truthy
Truthy(j) == ~(j = Null \/ (j.shape = "bare" /\ j.val = 0))

\* srvC extractRoundPoints
extractRoundPoints_srvC(j) ==
  IF j.shape \in {"bare", "pontos", "pontos_rodada", "pontos.rodada", "time.pontos"}
  THEN Num(j.val)
  ELSE Null

\* partB extractRoundPoints: Number(c) of each candidate field; Number(null)
\* is 0, Number(undefined) and Number({...}) are NaN; then time.pontos.rodada.
extractRoundPoints_partB(j) ==
  CASE j.shape \in {"pontos", "pontos_rodada", "time.pontos", "time.pontos.rodada"}
         -> Num(j.val)
    [] j.shape = "pontos_null" -> Num(0)
    [] OTHER -> Null

\* srvA getTeamRoundPoints on the parsed body: a number, 0 when no field
\* matches; reading a field of null throws (Null here stands for the throw).
getTeamRoundPoints(j) ==
  CASE j.shape \in {"pontos", "pontos_rodada", "time.pontos"} -> Num(j.val)
    [] j = Null -> Null
    [] OTHER -> Num(0)

\* ---------------------------------------------------------------- the cache
CACHE_TTL_MS == 10 * 60 * 1000
NoEntry == [value |-> Null, at |-> -1]
CacheTeams == 1..MaxCacheTeams
CacheRounds == 1..MaxCacheRounds
\* "time" = `time:${timeId}:rodada:${rodada}` (srvC), "raw" = `timeRaw:...`,
\* "pts" = `pts:...` (partB)
CacheKeys == {"time", "raw", "pts"} \X CacheTeams \X CacheRounds
LookupFns(v) == IF v = "srvC" THEN {"time"} ELSE {"raw", "pts"}

Expired_AtTtl(c, key, t) == c[key] # NoEntry /\ t - c[key].at >= CACHE_TTL_MS

\* "Date.now() - item.at > CACHE_TTL_MS"
Expired(c, key, t) == c[key] # NoEntry /\ t - c[key].at > CACHE_TTL_MS

\* cacheGet: the value returned, and the Map afterwards (an expired entry is
\* deleted by the read)
cacheGet(c, key, t) ==
  IF c[key] = NoEntry \/ Expired(c, key, t) THEN Null ELSE c[key].value
cacheAfterGet(c, key, t) ==
  IF Expired(c, key, t) THEN [c EXCEPT ![key] = NoEntry] ELSE c
cacheSet_KeepFirst(c, key, value, t) ==
  IF c[key] # NoEntry THEN c ELSE [c EXCEPT ![key] = [value |-> value, at |-> t]]
cacheSet(c, key, value, t) == [c EXCEPT ![key] = [value |-> value, at |-> t]]

IdleLookup == [pc |-> "idle", fn |-> "none", team |-> 0, round |-> 0, sent |-> 0,
               sinceOk |-> -1, freshUnknown |-> FALSE, ranFetchPath |-> FALSE,
               result |-> [kind |-> "none", value |-> Null]]
OffLookup == [IdleLookup EXCEPT !.pc = "off"]

Returned(l, v) == [l EXCEPT !.pc = "done", !.result = [kind |-> "value", value |-> v]]

FetchThrew_ReturnsNull(l) == Returned(l, Null)

\* "await fetchSmart(url)" throws: the lookup has no try/catch, so its caller
\* gets the error and the cacheSet after the await is not reached.
FetchThrew(l) == [l EXCEPT !.pc = "done", !.result = [kind |-> "error", value |-> Null]]
Stamp(lo, keys, t) == [k \in DOMAIN lo |-> IF k \in keys THEN t ELSE lo[k]]

\* fetchTimeRound (srvC), getTimeRoundRaw and getRoundPointsForTeam (partB) up
\* to their first await: either the cache answers or fetchSmart(url) is called.
\* One call of fetchSmart counts as one upstream request here; its own
\* requests are the subject of Start / GetReply / IdpReply.
LookupStart(p) ==
  /\ look[p].pc = "idle"
  /\ lookups < MaxLookups
  /\ lookups' = lookups + 1
  /\ \E fn \in LookupFns(variant), tm \in CacheTeams, r \in CacheRounds :
       LET key == <<fn, tm, r>>
           rawKey == <<"raw", tm, r>>
           hit == cacheGet(cache, key, now)
           c1 == cacheAfterGet(cache, key, now)
           rawHit == cacheGet(c1, rawKey, now)
           c2 == cacheAfterGet(c1, rawKey, now)
           l == [look[p] EXCEPT
                   !.fn = fn, !.team = tm, !.round = r, !.sent = 0,
                   !.sinceOk = IF lastOk[key] < 0 THEN -1 ELSE now - lastOk[key],
                   !.freshUnknown = (/\ fn = "pts"
                                     /\ cache[key] # NoEntry
                                     /\ now - cache[key].at <= CACHE_TTL_MS
                                     /\ cache[key].value = Null),
                   !.ranFetchPath = FALSE,
                   !.result = [kind |-> "none", value |-> Null]]
       IN
       IF fn \in {"time", "raw"}
       THEN IF Truthy(hit)
            THEN /\ look' = [look EXCEPT ![p] = Returned(l, hit)]
                 /\ cache' = c1
                 /\ lastOk' = Stamp(lastOk, {key}, now)
            ELSE /\ look' = [look EXCEPT ![p] = [l EXCEPT !.pc = "fetch", !.sent = 1]]
                 /\ cache' = c1
                 /\ lastOk' = lastOk
       ELSE IF hit # Null
            THEN /\ look' = [look EXCEPT ![p] = Returned(l, hit)]
                 /\ cache' = c1
                 /\ lastOk' = Stamp(lastOk, {key}, now)
            ELSE IF Truthy(rawHit)
            THEN /\ look' = [look EXCEPT ![p] =
                               Returned([l EXCEPT !.ranFetchPath = TRUE],
                                        extractRoundPoints_partB(rawHit))]
                 /\ cache' = cacheSet(c2, key, extractRoundPoints_partB(rawHit), now)
                 /\ lastOk' = Stamp(lastOk, {key, rawKey}, now)
            ELSE /\ look' = [look EXCEPT ![p] =
                               [l EXCEPT !.pc = "fetch", !.sent = 1,
                                         !.ranFetchPath = TRUE]]
                 /\ cache' = c2
                 /\ lastOk' = lastOk
  /\ UNCHANGED <<mensal, variant, now, ticks, clientVars>>

\* fetchSmart returns or throws; the lookup stores what it got and returns.
LookupReply(p) ==
  /\ look[p].pc = "fetch"
  /\ \/ /\ look' = [look EXCEPT ![p] = FetchThrew(@)]
        /\ UNCHANGED <<cache, lastOk>>
     \/ \E d \in Payloads :
          LET l == look[p]
              key == <<l.fn, l.team, l.round>>
              rawKey == <<"raw", l.team, l.round>>
          IN
          IF l.fn = "pts"
          THEN /\ cache' = cacheSet(cacheSet(cache, rawKey, d, now), key,
                                    extractRoundPoints_partB(d), now)
               /\ look' = [look EXCEPT ![p] = Returned(l, extractRoundPoints_partB(d))]
               /\ lastOk' = Stamp(lastOk, {key, rawKey}, now)
          ELSE /\ cache' = cacheSet(cache, key, d, now)
               /\ look' = [look EXCEPT ![p] = Returned(l, d)]
               /\ lastOk' = Stamp(lastOk, {key}, now)
  /\ UNCHANGED <<mensal, variant, now, ticks, clientVars, lookups>>

\* The caller of the lookup goes on; the next lookup can start.
LookupReturn(p) ==
  /\ look[p].pc = "done"
  /\ lookups < MaxLookups
  /\ look' = [look EXCEPT ![p] = [@ EXCEPT !.pc = "idle"]]
  /\ UNCHANGED <<mensal, variant, now, ticks, clientVars, cache, lastOk, lookups>>

\* Time passes: 1 ms, 5 min or 10 min.
CacheTick ==
  /\ ticks < MaxCacheTicks
  /\ ticks' = ticks + 1
  /\ \E d \in {1, 5 * 60 * 1000, 10 * 60 * 1000} : now' = now + d
  /\ UNCHANGED <<mensal, variant, clientVars, cacheVars>>

CacheIdle ==
  /\ cache = [k \in CacheKeys |-> NoEntry]
  /\ look = [p \in Callers |-> OffLookup]
  /\ lastOk = [k \in CacheKeys |-> -1]
  /\ lookups = 0

\* ---------------------------------------------------- monthly aggregation
\* MONTH_BLOCKS (the same table in srvA, srvB, srvC and partB)
MONTH_BLOCKS ==
  << [start |-> 1, end |-> 4],   [start |-> 5, end |-> 8],
     [start |-> 9, end |-> 13],  [start |-> 14, end |-> 18],
     [start |-> 19, end |-> 21], [start |-> 22, end |-> 25],
     [start |-> 26, end |-> 28], [start |-> 29, end |-> 33],
     [start |-> 34, end |-> 38] >>

Min(a, b) == IF a < b THEN a ELSE b

\* MONTH_BLOCKS.find(b => r >= b.start && r <= b.end) || MONTH_BLOCKS[0]
getMonthBlock(r) ==
  LET hits == {i \in DOMAIN MONTH_BLOCKS :
                 r >= MONTH_BLOCKS[i].start /\ r <= MONTH_BLOCKS[i].end}
  IN IF hits = {} THEN MONTH_BLOCKS[1]
     ELSE MONTH_BLOCKS[CHOOSE i \in hits : \A j \in hits : i <= j]

\* status.rodada_atual and status.status_mercado as the upstream sends them;
\* 0 stands for a missing field
RodadaInputs == {0, 1, 2, 4, 5, 6, 13, 39}
MercadoInputs == {0, 1, 2}
OrOne(r) == IF r = 0 THEN 1 ELSE r

lastClosedRound_WhileOpen(raw, statusMercado, bolaRolando) ==
  IF OrOne(raw) <= 1 THEN 0
  ELSE IF OrOne(statusMercado) = 1 THEN OrOne(raw) - 1
  ELSE IF bolaRolando THEN OrOne(raw) - 1
  ELSE OrOne(raw)

\* srvC lastClosedRound(status): rodadaAtual is Number(status.rodada_atual || 1),
\* mercado is Number(status.status_mercado ?? 1)
lastClosedRound(raw, statusMercado, bolaRolando) ==
  LET rodadaAtual == OrOne(raw)
      mercado == OrOne(statusMercado)
  IN IF rodadaAtual <= 1 THEN 0
     ELSE IF mercado = 1 THEN rodadaAtual - 1
     ELSE IF bolaRolando THEN rodadaAtual - 1
     ELSE rodadaAtual - 1

\* The last round of the monthly sum.
\*   srvA  Math.min(block.end, rodadaAtual || block.start)
\*   srvC  Math.min(monthBlock.end, lastClosed)
\*   partB Math.min(block.end, rodadaAtual)
EndRound_Closed(v, raw, statusMercado, bolaRolando) ==
  Min(getMonthBlock(OrOne(raw)).end,
      lastClosedRound(raw, statusMercado, bolaRolando))
EndRound(v, raw, statusMercado, bolaRolando) ==
  LET block == getMonthBlock(OrOne(raw)) IN
  CASE v = "srvA" -> Min(block.end, IF raw = 0 THEN block.start ELSE raw)
    [] v = "srvC" -> Min(block.end, lastClosedRound(raw, statusMercado, bolaRolando))
    [] OTHER -> Min(block.end, OrOne(raw))

\* The value the variant's round lookup hands to the summing loop.
RoundPoints(v, d) ==
  CASE v = "srvA" -> getTeamRoundPoints(d)
    [] v = "srvC" -> extractRoundPoints_srvC(d)
    [] OTHER -> extractRoundPoints_partB(d)

RankBefore_OrEqual(v, a, b) ==
  IF v = "partB"
  THEN a.pts # Null /\ (b.pts = Null \/ a.pts.val >= b.pts.val)
  ELSE a.pts.val >= b.pts.val

RankBefore_Ascending(v, a, b) == a.pts # Null /\ b.pts # Null /\ a.pts.val < b.pts.val

\* The comparator of the ranking sort, as "a goes before b".
\*   srvA, srvC  results.sort((a, b) => b.soma - a.soma)
\*   partB       buildRankingRows: descending, null last
RankBefore(v, a, b) ==
  IF v = "partB"
  THEN a.pts # Null /\ (b.pts = Null \/ a.pts.val > b.pts.val)
  ELSE a.pts.val > b.pts.val

\* Array.prototype.sort is stable: an entry goes before the first one it beats.
InsertRanked(v, seq, x) ==
  LET beats == {i \in DOMAIN seq : RankBefore(v, x, seq[i])}
      at == IF beats = {} THEN Len(seq) + 1
            ELSE CHOOSE i \in beats : \A j \in beats : i <= j
  IN SubSeq(seq, 1, at - 1) \o <<x>> \o SubSeq(seq, at, Len(seq))

RECURSIVE SortRanked(_, _)
SortRanked(v, seq) ==
  IF seq = <<>> THEN <<>>
  ELSE InsertRanked(v, SortRanked(v, SubSeq(seq, 1, Len(seq) - 1)), seq[Len(seq)])

Entries(totals) == [i \in DOMAIN totals |-> [team |-> i, pts |-> totals[i]]]

OffMensal ==
  [pc |-> "off", raw |-> 0, rodada |-> 0, start |-> 0, end |-> 0, blockEnd |-> 0,
   n |-> 0, phase |-> "none", team |-> 0, round |-> 0,
   sum |-> 0, hasAny |-> FALSE, totals |-> <<>>,
   knownSum |-> 0, anyKnown |-> FALSE, known |-> <<>>,
   anyFailed |-> FALSE, looked |-> {}, maxLooked |-> 0,
   statusMercado |-> 0, bolaRolando |-> FALSE, lastClosed |-> 0,
   outcome |-> "none", ranking |-> <<>>, top |-> 0, awarded |-> <<>>,
   errStatus |-> 0, response |-> [status |-> 0, body |-> "none"]]
IdleMensal == [OffMensal EXCEPT !.pc = "idle"]

\* PREMIADOS_TOP = Number(process.env.PREMIADOS_TOP || '4') in srvC and
\* partB; srvA writes "results.slice(0, 4)".
TopInputs(v) == IF v = "srvA" THEN {4} ELSE 0..MaxTopN

slice_OneLess(seq, end) == SubSeq(seq, 1, Min(end, Len(seq)) - 1)

\* Array.prototype.slice(0, end): a negative end counts from the end of the
\* array, an end beyond the length stops at the length.
slice(seq, end) ==
  LET last == IF end < 0
              THEN (IF Len(seq) + end < 0 THEN 0 ELSE Len(seq) + end)
              ELSE Min(end, Len(seq))
  IN SubSeq(seq, 1, last)

\* sumPoints' return value in partB, the plain sum in srvA and srvC
TeamTotal_AlwaysNumber(v, sum, hasAny) == Num(sum)
TeamTotal(v, sum, hasAny) == IF v = "partB" /\ ~hasAny THEN Null ELSE Num(sum)

PhaseStart(m) == IF m.phase \in {"sum", "prev"} THEN m.start ELSE 1
PhaseEnd(m) ==
  CASE m.phase = "sum" -> m.end
    [] m.phase = "prev" -> m.end - 1
    [] m.phase = "geral" -> m.rodada
    [] OTHER -> m.rodada - 1

StartPhase(m, ph) ==
  LET m1 == [m EXCEPT !.phase = ph, !.team = 1] IN [m1 EXCEPT !.round = PhaseStart(m1)]

\* err.status of an error thrown inside the /mensal handler: 0 when the
\* error has no status field (refresh and configuration errors, a TypeError,
\* srvC's "Resposta nao-JSON"), the upstream status of a failed request, and
\* in partB 200 for a body that is not JSON.
ErrorStatuses(v) == {0, 404} \cup (IF v = "partB" THEN {200} ELSE {})

responseStatus_FromError(v, how, errStatus) ==
  IF how # "error" THEN 200
  ELSE IF errStatus # 0 THEN errStatus ELSE 500

\* The status of the route's response: srvA's catch answers
\* "err && err.status ? err.status : 500", srvC's and partB's
\* res.status(500); a report is sent with 200.
responseStatus(v, how, errStatus) ==
  IF how # "error" THEN 200
  ELSE IF v = "srvA" /\ errStatus # 0 THEN errStatus
  ELSE 500

\* What the body of the response is: srvA's catch sends JSON with ok: false
\* and error, srvC's and partB's the text "ERRO: <message>"; otherwise the
\* text of the report.
responseBody(v, how) ==
  IF how # "error" THEN how
  ELSE IF v = "srvA" THEN "ok:false" ELSE "ERRO"

\* The report is complete, or the handler threw: the route answers.  A
\* ranking report lists the awarded entries, results.slice(0, PREMIADOS_TOP),
\* before the full ranking.
FinishedAs(v, m, how) ==
  [m EXCEPT !.pc = "done", !.outcome = how,
            !.awarded = IF how = "ranking" THEN slice(m.ranking, m.top) ELSE <<>>,
            !.response = [status |-> responseStatus(v, how, m.errStatus),
                          body |-> responseBody(v, how)]]
Finished(m, how) == FinishedAs(variant, m, how)

\* partB after the sums of the month: the "no points yet" text, or the
\* general ranking (buildGeral: 1..rodadaAtual, then 1..rodadaAtual-1)
AfterPrev(m) ==
  IF \A i \in DOMAIN m.totals : m.totals[i] = Null
  THEN Finished(m, "noPoints")
  ELSE StartPhase(m, "geral")

PhaseDone(v, m) ==
  CASE m.phase = "sum" ->
         LET m1 == [m EXCEPT !.ranking = SortRanked(v, Entries(m.totals))] IN
         IF v # "partB" THEN Finished(m1, "ranking")
         ELSE IF m1.end > m1.start THEN StartPhase(m1, "prev")
         ELSE AfterPrev(m1)
    [] m.phase = "prev" -> AfterPrev(m)
    [] m.phase = "geral" ->
         IF m.rodada > 1 THEN StartPhase(m, "geralPrev") ELSE Finished(m, "ranking")
    [] OTHER -> Finished(m, "ranking")

\* The end of one iteration of the round loop: next round, next team, or the
\* end of the phase. Only the sums of the month itself are kept; the sums of
\* the comparison and general rankings only feed the text.
Advance(v, m) ==
  IF m.round < PhaseEnd(m) THEN [m EXCEPT !.round = @ + 1]
  ELSE LET m1 == IF m.phase = "sum"
                 THEN [m EXCEPT !.totals = Append(@, TeamTotal(v, m.sum, m.hasAny)),
                                !.known = Append(@, [sum |-> m.knownSum, any |-> m.anyKnown]),
                                !.sum = 0, !.hasAny = FALSE,
                                !.knownSum = 0, !.anyKnown = FALSE]
                 ELSE m
       IN IF m.team < m.n
          THEN [m1 EXCEPT !.team = @ + 1, !.round = PhaseStart(m)]
          ELSE PhaseDone(v, m1)

Looked(m) ==
  [m EXCEPT !.looked = IF m.phase \in {"sum", "prev"} THEN @ \cup {m.round} ELSE @,
            !.maxLooked = IF m.round > @ THEN m.round ELSE @]

\* The round lookup threw. srvA and srvC catch it inside the loop; partB's
\* sumPoints does not, and the route answers 500.
RoundFailed(v, m, status) ==
  LET m1 == [m EXCEPT !.anyFailed = (@ \/ m.phase = "sum")] IN
  IF v = "partB" THEN Finished([m1 EXCEPT !.errStatus = status], "error")
  ELSE Advance(v, m1)

\* The round lookup returned pts (a number or null).
RoundValue(v, m, pts) ==
  IF pts = Null \/ m.phase # "sum" THEN Advance(v, m)
  ELSE Advance(v, [m EXCEPT !.sum = @ + pts.val, !.hasAny = TRUE,
                            !.knownSum = @ + pts.val, !.anyKnown = TRUE])

NoClosedRound_Never(v, start, end) == FALSE

\* srvC buildMensalPersonalizadoMsg: if (end < start), the "no closed round"
\* text; srvA and partB have no such test.
NoClosedRound(v, start, end) == v = "srvC" /\ end < start

\* /mensal up to the first round lookup: market status and league have
\* arrived (or one of them failed), the block and the last round are fixed.
\* Only srvC reads status_mercado and bola_rolando.
MensalBeginWith(raws, sizes) ==
  /\ mensal.pc = "idle"
  /\ \/ \E status \in ErrorStatuses(variant) :
          mensal' = Finished([mensal EXCEPT !.errStatus = status], "error")
     \/ \E raw \in raws, n \in sizes,
           statusMercado \in MercadoInputs, bolaRolando \in BOOLEAN :
          LET block == getMonthBlock(OrOne(raw))
              end == EndRound(variant, raw, statusMercado, bolaRolando)
              m0 == [mensal EXCEPT !.raw = raw, !.rodada = OrOne(raw),
                                   !.start = block.start, !.blockEnd = block.end,
                                   !.end = end, !.n = n]
              m == IF variant = "srvC"
                   THEN [m0 EXCEPT !.statusMercado = statusMercado,
                                   !.bolaRolando = bolaRolando,
                                   !.lastClosed =
                                      lastClosedRound(raw, statusMercado, bolaRolando)]
                   ELSE m0
          IN mensal' = IF NoClosedRound(variant, block.start, end)
                       THEN Finished(m, "noClosed")
                       ELSE [StartPhase(m, "sum") EXCEPT !.pc = "lookup"]
  /\ UNCHANGED <<variant, now, ticks, clientVars, cacheVars>>

MensalBegin == MensalBeginWith(RodadaInputs, 1..MaxTeams)

\* What a round lookup can answer: it throws, or it returns a payload.
ThrownWith(status) == [ok |-> FALSE, data |-> Null, status |-> status]
Thrown == ThrownWith(0)
Got(d) == [ok |-> TRUE, data |-> d, status |-> 0]
AnyAnswer == {ThrownWith(s) : s \in ErrorStatuses(variant)} \cup {Got(d) : d \in Payloads}

\* One round lookup of the loop answers: it throws, or it returns a payload
\* (from the cache or from upstream) from which the points are extracted.
RoundReplyFrom(answers) ==
  /\ mensal.pc = "lookup"
  /\ \E a \in answers :
       mensal' = IF ~a.ok \/ (variant = "srvA" /\ a.data = Null)
                 THEN RoundFailed(variant, Looked(mensal), a.status)
                 ELSE RoundValue(variant, Looked(mensal), RoundPoints(variant, a.data))
  /\ UNCHANGED <<variant, now, ticks, clientVars, cacheVars>>

RoundReply == RoundReplyFrom(AnyAnswer)

\* The state after the module is loaded: srvA, partA and partC start without
\* a token; srvC starts with CARTOLA_BEARER (absent, opaque, or a JWT).
InitCredentials ==
  /\ variant \in Variants
  /\ now = 0
  /\ ticks = 0
  /\ accessTokenExp = NoExp
  /\ accessToken \in (IF variant = "srvC"
                      THEN {NoToken, [id |-> 1, exp |-> NoExp], [id |-> 1, exp |-> 30],
                            [id |-> 1, exp |-> 3600]}
                      ELSE {NoToken})
  /\ refreshToken \in (IF variant \in RefreshVariants THEN 0..MaxRefreshTokens ELSE {0})
  /\ clientId \in (IF variant \in RefreshVariants THEN BOOLEAN ELSE {FALSE})
  /\ bearer \in (IF variant \in {"srvB", "partB"} THEN BOOLEAN ELSE {FALSE})
  /\ nextTokenId = 2
  /\ raced = FALSE
  /\ checkResult = "unchecked"

\* Two callers: the configured credential is one the identity server does
\* not rotate any further, and CARTOLA_CLIENT_ID is set where the module
\* would otherwise use its built-in default.
Init ==
  /\ InitCredentials
  /\ refreshToken \in {0, MaxRefreshTokens}
  /\ variant \in {"srvA", "partC"} => clientId
  /\ call = [p \in Callers |-> IdleCall]
  /\ CacheIdle
  /\ mensal = OffMensal

\* One request alone.
InitSolo ==
  /\ InitCredentials
  /\ call = [p \in Callers |-> IF p = 1 THEN IdleCall ELSE OffCall]
  /\ CacheIdle
  /\ mensal = OffMensal

Next ==
  \/ \E p \in Callers : Start(p)
  \/ \E p \in Callers : IdpReply(p)
  \/ \E p \in Callers : GetReply(p)
  \/ Tick

Spec == Init /\ [][Next]_vars
SpecSolo == InitSolo /\ [][Next]_vars

\* ------------------------------------------------- SpecValid: the checks
\* The validity checks as pure functions of (token, expiry, now): the inputs
\* lie on a half-second grid around the safety margins.
ExpiryInputs == 0..MaxExpSteps
InitValid ==
  /\ variant \in RefreshVariants
  /\ ticks = 0
  /\ \E k \in 0..MaxNowSteps : now = k * HalfSecond
  /\ \E present \in BOOLEAN, e \in ExpiryInputs :
       /\ accessToken = IF present THEN [id |-> 1, exp |-> e \div 2] ELSE NoToken
       /\ accessTokenExp = CASE variant = "srvA" -> e \div 2
                             [] variant = "srvC" -> NoExp
                             [] OTHER -> e * HalfSecond
  /\ refreshToken = 1
  /\ clientId = TRUE
  /\ bearer = FALSE
  /\ call = [p \in Callers |-> OffCall]
  /\ raced = FALSE
  /\ nextTokenId = 2
  /\ checkResult = "unchecked"
  /\ CacheIdle
  /\ mensal = OffMensal

\* isTokenValid(accessToken) / accessTokenValid() / isAccessTokenValid() /
\* the test at the head of ensureAccessToken
CheckValidity ==
  /\ checkResult = "unchecked"
  /\ checkResult' = IF TokenValid(variant, accessToken, accessTokenExp, now)
                    THEN "valid" ELSE "invalid"
  /\ UNCHANGED <<mensal, variant, now, ticks, accessToken, accessTokenExp, refreshToken,
                 clientId, bearer, call, raced, nextTokenId, cacheVars>>

\* Half a second passes; the next check starts afresh.
HalfSecondPasses ==
  /\ now < MaxNowSteps * HalfSecond
  /\ now' = now + HalfSecond
  /\ checkResult' = "unchecked"
  /\ UNCHANGED <<mensal, variant, ticks, accessToken, accessTokenExp, refreshToken,
                 clientId, bearer, call, raced, nextTokenId, cacheVars>>

NextValid == CheckValidity \/ HalfSecondPasses
SpecValid == InitValid /\ [][NextValid]_vars

\* The expiry instant of the stored token, in ms, in whatever unit the
\* variant keeps it.
ExpiryInstantMs ==
  CASE variant = "srvA" -> accessTokenExp * 1000
    [] variant = "srvC" -> accessToken.exp * 1000
    [] OTHER -> accessTokenExp
HasTokenAndExpiry == accessToken.id # 0 /\ ExpiryInstantMs # 0

InitCache ==
  /\ variant \in {"srvC", "partB"}
  /\ now = 0
  /\ ticks = 0
  /\ accessToken = NoToken
  /\ accessTokenExp = NoExp
  /\ refreshToken = 0
  /\ clientId = FALSE
  /\ bearer = FALSE
  /\ call = [p \in Callers |-> OffCall]
  /\ raced = FALSE
  /\ nextTokenId = 2
  /\ checkResult = "unchecked"
  /\ cache = [k \in CacheKeys |-> NoEntry]
  /\ look = [p \in Callers |-> IF p = 1 THEN IdleLookup ELSE OffLookup]
  /\ lastOk = [k \in CacheKeys |-> -1]
  /\ lookups = 0
  /\ mensal = OffMensal

NextCache ==
  \/ \E p \in Callers : LookupStart(p)
  \/ \E p \in Callers : LookupReply(p)
  \/ \E p \in Callers : LookupReturn(p)
  \/ CacheTick

SpecCache == InitCache /\ [][NextCache]_vars

\* C6 (as claimed): for every upstream payload, a lookup of a key made at most
\* 10 minutes after a lookup of the same key returned normally sends no
\* upstream request, and one made later than that sends exactly one.
C6_CachedWithinTtl ==
  \A p \in Callers :
    LET l == look[p] IN
    l.pc \in {"fetch", "done"} =>
       /\ (l.sinceOk >= 0 /\ l.sinceOk <= CACHE_TTL_MS => l.sent = 0)
       /\ (l.sinceOk > CACHE_TTL_MS => l.sent = 1)

\* C7 (as claimed): a lookup by getRoundPointsForTeam of a key whose cached
\* outcome is 'unknown' and within its TTL is a hit: it returns unknown
\* without re-running the fetch path and without an upstream request.
C7_UnknownIsAHit ==
  \A p \in Callers :
    LET l == look[p] IN
    (l.pc \in {"fetch", "done"} /\ l.fn = "pts" /\ l.freshUnknown) =>
       /\ ~l.ranFetchPath
       /\ l.sent = 0
       /\ (l.pc = "done" => l.result.value = Null)

\* ------------------------------------------ SpecMensal: the monthly report
InitMensal ==
  /\ variant \in {"srvA", "srvC", "partB"}
  /\ now = 0
  /\ ticks = 0
  /\ accessToken = NoToken
  /\ accessTokenExp = NoExp
  /\ refreshToken = 0
  /\ clientId = FALSE
  /\ bearer = FALSE
  /\ call = [p \in Callers |-> OffCall]
  /\ raced = FALSE
  /\ nextTokenId = 2
  /\ checkResult = "unchecked"
  /\ CacheIdle
  /\ \E n \in TopInputs(variant) : mensal = [IdleMensal EXCEPT !.top = n]

NextMensal == MensalBegin \/ RoundReply

SpecMensal == InitMensal /\ [][NextMensal]_vars

MensalTeams == 1..mensal.n
SumPhaseOver == mensal.phase # "sum" \/ mensal.pc = "done"

\* C8 (as claimed): when a round lookup of the monthly sum failed, the run
\* still ends with a ranking that contains every team, and every team's total
\* is the sum of the values of its other rounds.
C8_FailedRoundCountsZero ==
  (mensal.pc = "done" /\ mensal.anyFailed) =>
     /\ mensal.outcome = "ranking"
     /\ {mensal.ranking[i].team : i \in DOMAIN mensal.ranking} = MensalTeams
     /\ \A i \in MensalTeams : mensal.totals[i] = Num(mensal.known[i].sum)

\* C11: lastClosedRound is 0 when rodada_atual is 1, lower or missing and
\* rodada_atual - 1 otherwise, and the result is the same for every value of
\* status_mercado and bola_rolando.
C11_LastClosedIgnoresFlags ==
  (variant = "srvC" /\ mensal.pc \in {"lookup", "done"} /\ mensal.outcome # "error") =>
     /\ mensal.lastClosed = (IF mensal.raw <= 1 THEN 0 ELSE mensal.raw - 1)
     /\ \A sm \in MercadoInputs, br \in BOOLEAN :
          lastClosedRound(mensal.raw, sm, br) = mensal.lastClosed

\* C11 witness: the market is closed with a match in progress in round 6 and
\* the last closed round is 5.
C11_Witness ==
  /\ variant = "srvC"
  /\ mensal.pc = "lookup"
  /\ mensal.raw = 6
  /\ mensal.statusMercado = 2
  /\ mensal.bolaRolando
  /\ mensal.lastClosed = 5

C9_UnknownCountsZero ==
  \A i \in DOMAIN mensal.totals : mensal.totals[i] = Num(mensal.known[i].sum)

\* C9 (amended): every team's total is the sum of its numeric round values;
\* when no round of the window has a numeric value the total is the number 0
\* in srvA and srvC and null (ranked last) in partB.
C9_TotalIsSumOrNull ==
  \A i \in DOMAIN mensal.totals :
    LET k == mensal.known[i] IN
    /\ k.any => mensal.totals[i] = Num(k.sum)
    /\ ~k.any => mensal.totals[i] = (IF variant = "partB" THEN Null ELSE Num(0))

C9_Witness ==
  /\ variant = "partB"
  /\ mensal.pc = "done"
  /\ mensal.outcome = "ranking"
  /\ Len(mensal.totals) = 2
  /\ mensal.totals[1] = Null
  /\ mensal.totals[2] = Num(2)
  /\ mensal.ranking[1].team = 2

MonthlyRange(last) == mensal.start .. Min(mensal.blockEnd, last)

\* C10 (as claimed): every round the monthly sum looks up lies in
\* block.start .. min(block.end, rodada_atual - 1).
C10_OnlyClosedRounds ==
  mensal.looked \subseteq MonthlyRange(mensal.rodada - 1)

\* C10 (amended): every round the monthly sum looks up lies in
\* block.start .. min(block.end, rodada_atual) and no lookup of the report
\* goes beyond rodada_atual; srvC stops at rodada_atual - 1. A report that
\* ends with a ranking has looked up every round of that range, the current
\* round included in srvA and partB when it lies in the block.
C10_RoundsPerVariant ==
  LET last == IF variant = "srvC" THEN mensal.rodada - 1 ELSE mensal.rodada IN
  /\ mensal.looked \subseteq MonthlyRange(last)
  /\ mensal.maxLooked <= mensal.rodada
  /\ (SumPhaseOver /\ mensal.outcome \in {"ranking", "noPoints"} =>
        mensal.looked = MonthlyRange(last))

C10_Witness ==
  /\ variant \in {"srvA", "partB"}
  /\ mensal.pc = "done"
  /\ mensal.outcome = "ranking"
  /\ mensal.rodada = 6
  /\ mensal.rodada \in mensal.looked

\* ----------------------------- SpecScenario: one league, rounds 5 to 8
\* The round endpoint's answers for three teams in the block of rounds 5-8:
\*   T1: 10, 12, 8, -    T2: 9, 9, 9, -    T3: failure, 20, 5, -
\* ("-": the round has no points yet).
ScenarioRounds == 5..8
ScenarioPoints ==
  << <<10, 12, 8>>, <<9, 9, 9>>, <<0, 20, 5>> >>
ScenarioTeams == Len(ScenarioPoints)
ScenarioAnswers(team, round) ==
  IF round = 8 \/ round \notin ScenarioRounds THEN {Got([shape |-> "empty", val |-> 0])}
  ELSE IF team = 3 /\ round = 5 THEN {Thrown}
  ELSE {Got([shape |-> "pontos", val |-> ScenarioPoints[team][round - 4]])}

InitScenario ==
  /\ variant \in {"srvA", "srvC"}
  /\ now = 0
  /\ ticks = 0
  /\ accessToken = NoToken
  /\ accessTokenExp = NoExp
  /\ refreshToken = 0
  /\ clientId = FALSE
  /\ bearer = FALSE
  /\ call = [p \in Callers |-> OffCall]
  /\ raced = FALSE
  /\ nextTokenId = 2
  /\ checkResult = "unchecked"
  /\ CacheIdle
  /\ mensal = IdleMensal

ScenarioBegin == MensalBeginWith(ScenarioRounds, 1..ScenarioTeams)
ScenarioReply == RoundReplyFrom(ScenarioAnswers(mensal.team, mensal.round))
NextScenario == ScenarioBegin \/ ScenarioReply
SpecScenario == InitScenario /\ [][NextScenario]_vars

RankingOrder == [i \in DOMAIN mensal.ranking |-> mensal.ranking[i].team]
ScenarioDone(v, rodada) ==
  /\ variant = v
  /\ mensal.pc = "done"
  /\ mensal.outcome = "ranking"
  /\ mensal.raw = rodada
  /\ mensal.n = ScenarioTeams

\* C13 (as claimed): block 5-8, current round 7 (last closed 6), the points
\* above: srvC's report has the sums T1 = 30, T2 = 27, T3 = 25 and the order
\* [T1, T2, T3].
C13_ScenarioAsClaimed ==
  ScenarioDone("srvC", 7) =>
     /\ mensal.totals = <<Num(30), Num(27), Num(25)>>
     /\ RankingOrder = <<1, 2, 3>>

\* C13 (amended): with current round 7 srvC sums rounds 5 and 6 only: T1 = 22,
\* T2 = 18, T3 = 20 (its failed round counts 0), order [T1, T3, T2].  The
\* sums 30, 27, 25 and the order [T1, T2, T3] are those of rounds 5 to 7:
\* srvC with current round 8, or srvA (which includes the current round)
\* with current round 7.
C13_ScenarioSums ==
  /\ ScenarioDone("srvC", 7) =>
        /\ mensal.lastClosed = 6 /\ mensal.end = 6 /\ mensal.looked = {5, 6}
        /\ mensal.totals = <<Num(22), Num(18), Num(20)>>
        /\ RankingOrder = <<1, 3, 2>>
  /\ ScenarioDone("srvC", 8) \/ ScenarioDone("srvA", 7) =>
        /\ mensal.looked = {5, 6, 7}
        /\ mensal.totals = <<Num(30), Num(27), Num(25)>>
        /\ RankingOrder = <<1, 2, 3>>

C13_Witness ==
  /\ ScenarioDone("srvC", 7)
  /\ mensal.anyFailed
  /\ mensal.totals[3] = Num(20)

\* ---------------------------------------------------- claims on the client
RECURSIVE SumIdpEnsure(_)
SumIdpEnsure(S) ==
  IF S = {} THEN 0
  ELSE LET p == CHOOSE x \in S : TRUE IN call[p].idpEnsure + SumIdpEnsure(S \ {p})

\* The first authenticated request of a call, once it has been sent.
FirstAuthIndex(p) == IF variant \in AuthGetVariants THEN 1 ELSE 2
SentAuth(p) == Len(call[p].reqs) >= FirstAuthIndex(p)

\* C1 (as claimed): when callers find the stored token invalid while the
\* refresh of another caller is outstanding, one request in total goes to the
\* identity provider and all of them use the same token (stated for the runs
\* in which every such caller went on to send its authenticated request with
\* a token the provider issued).
C1_SingleFlightRefresh ==
  LET S == {p \in Callers : call[p].sawInvalid} IN
  (raced /\ \A p \in S : SentAuth(p) /\ call[p].reqs[FirstAuthIndex(p)].token # 0) =>
     /\ SumIdpEnsure(S) = 1
     /\ \A p, q \in S :
          call[p].reqs[FirstAuthIndex(p)].token = call[q].reqs[FirstAuthIndex(q)].token

ResultIsFailure(c) ==
  \/ c.result.kind \in {"http", "parse", "auth", "config"}
  \/ c.result.kind = "resp" /\ c.result.status # 200

\* C3 (as claimed): in an authenticated GET a 401 on the first request causes
\* exactly one refresh request and exactly one repeat of the GET, sent with
\* the token that refresh produced; no third GET, no further refresh, and a
\* non-2xx second response reaches the caller as a failure (stated for the
\* calls whose forced refresh returned a token).
C3_OneRefreshOneRetry ==
  \A p \in Callers :
    LET c == call[p] IN
    (/\ variant \in AuthGetVariants
     /\ Len(c.reqs) >= 1 /\ c.reqs[1].status = 401
     /\ c.forcedTok # 0) =>
       /\ c.idpForced <= 1
       /\ Len(c.reqs) <= 2
       /\ (Len(c.reqs) = 2 => c.idpForced = 1 /\ c.reqs[2].token = c.forcedTok)
       /\ (c.pc = "done" => Len(c.reqs) = 2)
       /\ (c.pc = "done" /\ Len(c.reqs) = 2 /\ c.reqs[2].status # 200 =>
             ResultIsFailure(c))

CredentialConfigured ==
  IF variant = "srvC" THEN accessToken.id # 0 \/ refreshToken # 0 ELSE bearer

\* C4: fetchSmart sends its first request without an Authorization header;
\* it sends a second, authenticated request only if the first failed with 401
\* or 403 and a credential is configured; any other first failure is
\* propagated after exactly one upstream request; there are never more than
\* two upstream requests, and a failed retry is propagated.
C4_FetchSmartEscalation ==
  \A p \in Callers :
    LET c == call[p]
        n == Len(c.reqs)
    IN
    variant \in SmartVariants =>
       /\ n <= 2
       /\ (n >= 1 => ~c.reqs[1].auth)
       /\ (n = 2 => /\ c.reqs[1].status \in {401, 403}
                    /\ CredentialConfigured
                    /\ c.reqs[2].auth)
       /\ (/\ c.pc = "done"
           /\ (c.reqs[1].status \notin {200, 401, 403} \/ ~c.reqs[1].json \/
               (c.reqs[1].status \in {401, 403} /\ ~CredentialConfigured))
           => n = 1 /\ ResultIsFailure(c) /\ c.result.req = 1)
       /\ (c.pc = "done" /\ n = 2 /\ (c.reqs[2].status # 200 \/ ~c.reqs[2].json)
           => ResultIsFailure(c) /\ c.result.req = 2)

\* C4 witness: a fetchSmart call got 403 without credentials, retried with
\* the credential, and the retry's failure reached the caller.
C4_Witness ==
  \E p \in Callers :
     /\ variant \in SmartVariants
     /\ call[p].pc = "done"
     /\ Len(call[p].reqs) = 2
     /\ call[p].reqs[1].status = 403
     /\ call[p].reqs[2].status = 500
     /\ call[p].result.kind = "http"
     /\ call[p].result.req = 2

EscalatedAndSucceeded(c) ==
  /\ variant = "srvC"
  /\ c.pc = "done"
  /\ Len(c.reqs) = 2
  /\ c.reqs[1].status = 403
  /\ c.result.kind = "ok"

\* C5 (as claimed): srvC fetchSmart, 403 then a successful authenticated
\* retry: the caller gets the authenticated response's body and exactly one
\* refresh request was sent during the call.
C5_ExactlyOneRefresh ==
  \A p \in Callers :
    EscalatedAndSucceeded(call[p]) => call[p].result.req = 2 /\ call[p].idp = 1

\* C5 (amended): the caller gets the authenticated response's body; no
\* refresh request is sent when the stored token is valid at the retry
\* (expiry more than 60 s ahead); otherwise one request is sent per client id
\* tried (CLIENT_ID when configured, then 'cartola-web'), so one or two.
C5_RefreshOnlyIfNeeded ==
  \A p \in Callers :
    LET c == call[p]
        wasValid == /\ c.seenTok.id # 0
                    /\ c.seenTok.exp # 0
                    /\ c.seenTok.exp * 1000 > c.seenAt + 60000
    IN
    EscalatedAndSucceeded(c) =>
       /\ c.result.req = 2
       /\ (wasValid => c.idp = 0)
       /\ (~wasValid => c.idp >= 1 /\ c.idp <= (IF clientId THEN 2 ELSE 1))

\* C5 witness: an escalated call that succeeded after two refresh requests.
C5_Witness ==
  \E p \in Callers : EscalatedAndSucceeded(call[p]) /\ call[p].idp = 2

\* ---------------------------------------------------------------------------
\* Claims on the refresh operation (SpecSolo)
\* ---------------------------------------------------------------------------

\* The step in which caller p's refresh request is answered
RefreshAnswered(p) == call[p].pc \in IdpPcs /\ call'[p] # call[p]

\* The refresh of caller p ended with an error: the call fails, or (srvC)
\* refreshAccessTokenIfNeeded catches the error and tries the next client id.
RefreshFailed(p) ==
  \/ call'[p].pc = "done" /\ call'[p].result.kind = "auth"
  \/ /\ variant = "srvC"
     /\ call'[p].pc \in IdpPcs
     /\ call'[p].cand = call[p].cand + 1

\* C14: a refresh answered 2xx with a body that has no access_token fails
\* with an error in every refresh implementation and leaves the stored access
\* token and expiry as they were.
C14_NoTokenResponseFails ==
  [][\A p \in Callers :
       (RefreshAnswered(p) /\ call'[p].lastIdp = "notoken") =>
         /\ RefreshFailed(p)
         /\ accessToken' = accessToken
         /\ accessTokenExp' = accessTokenExp]_vars

\* C15: once a non-empty access token is stored it is only ever replaced by
\* another non-empty token, and the token and expiry variables change only
\* in a step that processes a refresh response.
C15_TokenNeverReset ==
  [][/\ accessToken.id # 0 => accessToken'.id # 0
     /\ (accessToken' # accessToken \/ accessTokenExp' # accessTokenExp) =>
          \E p \in Callers : RefreshAnswered(p)]_vars

\* The step in which caller p sends the GET that follows a normal return of
\* the ensure-valid-token operation
SendsEnsured(p) ==
  /\ Len(call'[p].reqs) = Len(call[p].reqs) + 1
  /\ call'[p].reqs[Len(call'[p].reqs)].ensured

\* C16: whenever the ensure-valid-token operation returns normally, the stored
\* access token is non-empty and valid (expiry beyond the safety margin), so
\* the request that follows carries a token that was valid when attached.
C16_EnsuredTokenValid ==
  [][\A p \in Callers :
       SendsEnsured(p) =>
         /\ accessToken'.id # 0
         /\ TokenValid(variant, accessToken', accessTokenExp', now')]_vars

\* No refresh has touched the stored token: it is what the process started with.
TokenUntouched == accessToken.id < 2 /\ accessTokenExp = NoExp /\ nextTokenId = 2

Refreshing == [pc |-> "refreshing", n |-> 1, sent |-> 1, offered |-> 0]

InitRefresh ==
  /\ variant \in RefreshVariants
  /\ ticks = 0
  /\ \E k \in 0..MaxNowSteps : now = k * HalfSecond
  /\ accessToken = NoToken
  /\ accessTokenExp = NoExp
  /\ refreshToken = 1
  /\ clientId = TRUE
  /\ bearer = FALSE
  /\ call = [p \in Callers |-> IF p = 1 THEN Refreshing ELSE OffCall]
  /\ raced = FALSE
  /\ nextTokenId = 2
  /\ checkResult = "unchecked"
  /\ CacheIdle
  /\ mensal = OffMensal

\* The response arrives and the refresh function returns or throws.
RefreshReturns ==
  /\ call[1].pc = "refreshing"
  /\ \E r \in IdpResponses(now, nextTokenId, call[1].sent) :
       /\ IF RefreshAccepted(variant, r)
          THEN /\ accessToken' = r.tok
               /\ accessTokenExp' = refreshedExpiry(variant, r, now)
               /\ refreshToken' = rotatedRefreshToken(variant, r, refreshToken)
               /\ nextTokenId' = IF r.tok.id # 0 THEN nextTokenId + 1 ELSE nextTokenId
          ELSE UNCHANGED <<accessToken, accessTokenExp, refreshToken, nextTokenId>>
       /\ call' = [call EXCEPT ![1] =
            [pc |-> IF RefreshAccepted(variant, r) THEN "refreshed" ELSE "failed",
             n |-> call[1].n, sent |-> call[1].sent, response |-> r, at |-> now,
             offered |-> IF RefreshAccepted(variant, r) /\ r.refresh_token.id # 0
                         THEN r.refresh_token.id ELSE call[1].offered]]
  /\ UNCHANGED <<mensal, variant, now, ticks, clientId, bearer, raced, checkResult,
                 cacheVars>>

\* Half a second later the refresh function is called again.
RefreshAgain ==
  /\ call[1].pc \in {"refreshed", "failed"}
  /\ call[1].n < MaxRefreshes
  /\ now' = now + HalfSecond
  /\ call' = [call EXCEPT ![1] = [pc |-> "refreshing", n |-> call[1].n + 1,
                                   sent |-> refreshToken, offered |-> call[1].offered]]
  /\ UNCHANGED <<mensal, variant, ticks, accessToken, accessTokenExp, refreshToken,
                 clientId, bearer, raced, nextTokenId, checkResult, cacheVars>>

NextRefresh == RefreshReturns \/ RefreshAgain
SpecRefresh == InitRefresh /\ [][NextRefresh]_vars

\* A refresh has just stored an access token in one of the variants that
\* keep an expiry variable.
StoredToken ==
  /\ variant \in AuthGetVariants
  /\ call[1].pc = "refreshed"
  /\ call[1].response.tok.id # 0

C20_RefreshTokenRotates ==
  /\ call[1].pc = "refreshed" =>
       refreshToken = IF call[1].response.refresh_token.id # 0
                      THEN call[1].response.refresh_token.id
                      ELSE call[1].sent
  /\ (call[1].pc = "refreshing" /\ call[1].offered # 0) =>
       call[1].sent = call[1].offered

\* ---------------------------------------------------------------------------
\* Claims on what a refresh and a request leave alone (SpecSolo)
\* ---------------------------------------------------------------------------

\* C21: a refresh answered with a non-2xx status fails with an error and
\* leaves the stored access token, its expiry and the refresh credential as
\* they were; the three change only in a step in which a refresh answered 2xx
\* returns normally.
C21_FailedRefreshChangesNothing ==
  [][/\ \A p \in Callers :
          (RefreshAnswered(p) /\ call'[p].lastIdp = "fail") =>
            /\ RefreshFailed(p)
            /\ accessToken' = accessToken
            /\ accessTokenExp' = accessTokenExp
            /\ refreshToken' = refreshToken
     /\ (\/ accessToken' # accessToken
         \/ accessTokenExp' # accessTokenExp
         \/ refreshToken' # refreshToken) =>
          \E p \in Callers : /\ RefreshAnswered(p)
                              /\ call'[p].lastIdp \in {"token", "notoken"}
                              /\ ~RefreshFailed(p)]_vars

\* C21 witness: a forced refresh was answered non-2xx and the call failed,
\* while the token and expiry stored by the refresh before it are still there.
C21_Witness ==
  \E p \in Callers :
    /\ call[p].pc = "done" /\ call[p].result.kind = "auth"
    /\ call[p].lastIdp = "fail" /\ call[p].idp = 2
    /\ accessToken.id = 2 /\ nextTokenId = 3
    /\ variant # "srvC" => accessTokenExp # NoExp

\* C22: wherever another request can run (between any two steps, also with
\* two refreshes in flight), the stored expiry is the one derived for the
\* stored access token: a token with an exp claim is paired with that exp,
\* and token and expiry change only together, in the step that processes one
\* refresh response, to the values derived from that response.
C22_TokenAndExpiryTogether ==
  /\ [](variant \in AuthGetVariants =>
          /\ accessToken.exp # NoExp => ExpiryInstantMs = accessToken.exp * 1000
          /\ accessToken.id # 0 => accessTokenExp # NoExp)
  /\ [][(accessToken' # accessToken \/ accessTokenExp' # accessTokenExp) =>
          \E p \in Callers :
            /\ RefreshAnswered(p)
            /\ \E r \in IdpResponses(now, nextTokenId, call[p].rtSent) :
                 /\ RefreshAccepted(variant, r)
                 /\ accessToken' = r.tok
                 /\ accessTokenExp' = refreshedExpiry(variant, r, now)]_vars

\* C22 witness: two refreshes were in flight at once; one has been answered
\* and its caller awaits its GET, the other is still awaiting its answer.
C22_Witness ==
  /\ raced
  /\ variant \in AuthGetVariants
  /\ accessToken.id = 2 /\ accessToken.exp # NoExp
  /\ ExpiryInstantMs = accessToken.exp * 1000
  /\ \E p, q \in Callers : call[p].pc = "get1" /\ call[q].pc = "idp1"

\* ---------------------------------------------------------------------------
\* Claims on what the API client hands its caller (SpecSolo)
\* ---------------------------------------------------------------------------

\* The upstream response that decided the finished call c
Deciding(c) == c.reqs[c.result.req]
Decided(c) == c.pc = "done" /\ c.result.req > 0

\* C23: a 2xx upstream response whose body is not valid JSON makes
\* cartolaFetchJson (srvA) and fetchJson (srvB, srvC, partB) fail with a parse
\* error that reaches the caller; no substitute value is returned.
C23_BadJsonIsParseError ==
  \A p \in Callers :
    LET c == call[p] IN
    (/\ variant \in {"srvA", "srvB", "srvC", "partB"}
     /\ Decided(c)
     /\ Deciding(c).status = 200
     /\ ~Deciding(c).json) => c.result.kind = "parse"

\* C24: every failure the API client raises for a non-2xx upstream response
\* carries that response's numeric HTTP status in a field of the error
\* (result.status; 0 stands for no such field), in every client.
C24_HttpFailureCarriesStatus ==
  \A p \in Callers :
    LET c == call[p] IN
    (/\ Decided(c)
     /\ Deciding(c).status # 200
     /\ c.result.kind \notin {"ok", "resp"}) =>
       /\ c.result.kind = "http"
       /\ c.result.status = Deciding(c).status

\* C25: while a call runs with auth disabled (cartolaFetchJson with
\* auth = false; fetchJson(url, false)), none of its requests carries an
\* Authorization header, it never calls the token refresher whatever the
\* response status, and its steps leave the stored access token, expiry and
\* refresh credential unchanged; cartolaFetchJson then ends with the first
\* response.
C25_NoAuthTouchesNothing ==
  [][\A p \in Callers :
       LET c == call[p]
           d == call'[p]
       IN
       (d # c /\ ~d.auth) =>
         /\ d.idp = 0 /\ d.pc \notin IdpPcs
         /\ \A i \in 1..Len(d.reqs) : ~d.reqs[i].auth /\ d.reqs[i].token = 0
         /\ accessToken' = accessToken
         /\ accessTokenExp' = accessTokenExp
         /\ refreshToken' = refreshToken
         /\ (variant = "srvA" /\ c.pc = "getPub") =>
              (d.pc = "done" /\ d.result.req = 1 /\ Len(d.reqs) = 1)]_vars

\* C25 witness: srvA with the refresher configured; a call with auth = false
\* was answered 401 and ended there, with no refresh request.
C25_Witness ==
  \E p \in Callers :
    /\ variant = "srvA" /\ refreshToken # 0
    /\ ~call[p].auth /\ Decided(call[p])
    /\ Deciding(call[p]).status = 401
    /\ call[p].result.kind = "http" /\ call[p].result.status = 401
    /\ call[p].idp = 0 /\ TokenUntouched

\* ---------------------------------------------------------------------------
\* Claims on the cache (SpecCache)
\* ---------------------------------------------------------------------------

\* Lookup p reads key k in this step: its own key, and getRoundPointsForTeam
\* also the raw key of the same team and round.
ReadsKey(p, k) ==
  /\ look[p].pc = "idle" /\ look'[p].pc # "idle"
  /\ look'[p].team = k[2] /\ look'[p].round = k[3]
  /\ look'[p].fn = k[1] \/ (look'[p].fn = "pts" /\ k[1] = "raw")

\* Lookup p stores under key k in this step.
WritesKey(p, k) ==
  /\ look'[p] # look[p]
  /\ look'[p].team = k[2] /\ look'[p].round = k[3]
  /\ look'[p].fn = k[1] \/ (look'[p].fn = "pts" /\ k[1] = "raw")

\* C26: cacheGet returns the stored value of an entry at most 10 minutes old;
\* for an older entry it deletes exactly that entry and reports a miss.  An
\* entry leaves the cache only through such a read of its own key, changes
\* only through cacheSet for its key (stamped with the time of the write),
\* and neither the passing of time nor a read changes it otherwise.
C26_LazyEviction ==
  [][\A k \in CacheKeys :
       LET e == cache[k]
           old == e # NoEntry /\ now - e.at > CACHE_TTL_MS
       IN
       /\ cacheGet(cache, k, now) = IF e # NoEntry /\ ~old THEN e.value ELSE Null
       /\ cacheAfterGet(cache, k, now) =
            [j \in CacheKeys |-> IF j = k /\ old THEN NoEntry ELSE cache[j]]
       /\ (e # NoEntry /\ cache'[k] = NoEntry) =>
            (old /\ \E p \in DOMAIN look : ReadsKey(p, k))
       /\ (cache'[k] # e /\ cache'[k] # NoEntry) =>
            (cache'[k].at = now /\ \E p \in DOMAIN look : WritesKey(p, k))
       /\ now' # now => cache' = cache]_vars

\* C26 witness: a lookup found its key's entry older than 10 minutes, the
\* read deleted it, and the lookup went on to fetch.
C26_Witness ==
  \E p \in DOMAIN look :
    /\ look[p].pc = "fetch"
    /\ look[p].sinceOk > CACHE_TTL_MS
    /\ cache[<<look[p].fn, look[p].team, look[p].round>>] = NoEntry

\* The key of lookup record l
KeyOf(l) == <<l.fn, l.team, l.round>>

\* C27: when the upstream fetch behind a cached lookup fails, the lookup ends
\* with that error and the cache is left as it was (a fetch that succeeds is
\* the only way out of the fetch that stores, stamping the key now); the
\* next lookup of the same key then goes to the fetch again.
C27_FetchFailurePropagates ==
  [][\A p \in DOMAIN look :
       LET l == look[p]
           d == look'[p]
       IN
       /\ (l.pc = "fetch" /\ d.pc = "done" /\ d.result.kind = "error") =>
            (cache' = cache /\ lastOk' = lastOk)
       /\ (l.pc = "fetch" /\ d.pc = "done" /\ d.result.kind # "error") =>
            /\ d.result.kind = "value"
            /\ cache'[KeyOf(l)].at = now
            /\ lastOk'[KeyOf(l)] = now
       /\ (/\ l.pc = "idle" /\ d.pc # "idle"
           /\ l.result.kind = "error"
           /\ KeyOf(d) = KeyOf(l)) =>
            (d.pc = "fetch" /\ d.sent = 1)]_vars

\* C27 witness: two lookups of the one srvC key, nothing was ever stored
\* under it, and the second has ended with the fetch's error (so the first
\* failed too and the second fetched again).
C27_Witness ==
  \E p \in DOMAIN look :
    /\ variant = "srvC" /\ lookups = 2
    /\ look[p].pc = "done" /\ look[p].result.kind = "error" /\ look[p].sent = 1
    /\ lastOk[KeyOf(look[p])] = -1
    /\ cache[KeyOf(look[p])] = NoEntry

\* ---------------------------------------------------------------------------
\* SpecExtract: the point extractors on their own.  A payload of the team
\* round endpoint arrives and the variant's extractor is applied to it;
\* look[1] keeps the payload and what the extractor returned.
\* ---------------------------------------------------------------------------
ExtractVariants == {"srvA", "srvC", "partB"}

\* The extractor each variant applies to the parsed body
extractPoints(v, j) ==
  CASE v = "srvA" -> getTeamRoundPoints(j)
    [] v = "srvC" -> extractRoundPoints_srvC(j)
    [] OTHER -> extractRoundPoints_partB(j)

\* The field shapes each extractor knows (the fields it reads)
KnownShapes(v) ==
  CASE v = "srvA" -> {"pontos", "pontos_rodada", "time.pontos"}
    [] v = "srvC" -> {"bare", "pontos", "pontos_rodada", "pontos.rodada", "time.pontos"}
    [] OTHER -> {"pontos", "pontos_rodada", "time.pontos", "time.pontos.rodada"}

InitExtract ==
  /\ variant \in ExtractVariants
  /\ now = 0
  /\ ticks = 0
  /\ accessToken = NoToken
  /\ accessTokenExp = NoExp
  /\ refreshToken = 0
  /\ clientId = FALSE
  /\ bearer = FALSE
  /\ call = [p \in Callers |-> OffCall]
  /\ raced = FALSE
  /\ nextTokenId = 2
  /\ checkResult = "unchecked"
  /\ cache = [k \in CacheKeys |-> NoEntry]
  /\ \E j \in Payloads :
       look = [p \in Callers |-> IF p = 1 THEN [pc |-> "payload", payload |-> j]
                                          ELSE OffLookup]
  /\ lastOk = [k \in CacheKeys |-> -1]
  /\ lookups = 0
  /\ mensal = OffMensal

\* extractRoundPoints(raw) / the tail of getTeamRoundPoints
ExtractPoints ==
  /\ look[1].pc = "payload"
  /\ look' = [look EXCEPT ![1] =
       [pc |-> "extracted", payload |-> look[1].payload,
        points |-> extractPoints(variant, look[1].payload)]]
  /\ UNCHANGED <<mensal, variant, now, ticks, clientVars, cache, lastOk, lookups>>

\* The next payload arrives.
NextPayload ==
  /\ look[1].pc = "extracted"
  /\ \E j \in Payloads : look' = [look EXCEPT ![1] = [pc |-> "payload", payload |-> j]]
  /\ UNCHANGED <<mensal, variant, now, ticks, clientVars, cache, lastOk, lookups>>

NextExtract == ExtractPoints \/ NextPayload
SpecExtract == InitExtract /\ [][NextExtract]_vars

\* C28: each extractor returns the number held by the payload's known shape,
\* and unknown (null), never 0, when no known shape holds a number: also when
\* a point field is present but null, or no field is there at all.
C28_NumberOrUnknown ==
  look[1].pc = "extracted" =>
    LET j == look[1].payload IN
    look[1].points = IF j.shape \in KnownShapes(variant) THEN Num(j.val) ELSE Null

\* ---------------------------------------------------------------------------
\* Claims on the ranking of the monthly report (SpecMensal)
\* ---------------------------------------------------------------------------

\* Sum a is smaller than sum b; an unknown sum (partB) is below every number.
SmallerSum(a, b) == b # Null /\ (a = Null \/ a.val < b.val)

\* C29: the ranking of the monthly aggregation holds each input team exactly
\* once, with its sum; no entry has a smaller sum than a later entry; teams
\* with equal sums keep their input order.  (These fix the ranking as a
\* function of the sums, so equal inputs give equal rankings.)
C29_RankingIsStableSort ==
  LET rk == mensal.ranking
      n == Len(rk)
  IN
  n > 0 =>
    /\ n = mensal.n /\ n = Len(mensal.totals)
    /\ \A t \in 1..mensal.n : Cardinality({i \in 1..n : rk[i].team = t}) = 1
    /\ \A i \in 1..n : rk[i].pts = mensal.totals[rk[i].team]
    /\ \A i, j \in 1..n :
         i < j => /\ ~SmallerSum(rk[i].pts, rk[j].pts)
                  /\ rk[i].pts = rk[j].pts => rk[i].team < rk[j].team

\* C29 witness: two teams with equal, non-zero sums, ranked in input order.
C29_Witness ==
  /\ mensal.pc = "done" /\ mensal.outcome = "ranking"
  /\ Len(mensal.ranking) = 2
  /\ mensal.ranking[1].pts = mensal.ranking[2].pts
  /\ mensal.ranking[1].pts # Null /\ mensal.ranking[1].pts.val > 0
  /\ mensal.ranking[1].team = 1 /\ mensal.ranking[2].team = 2

\* C30: the awarded list of a ranking report is the first min(N, number of
\* teams) entries of the full ranking, in the same order, and whatever N is
\* the full ranking holds every team with the sum of its known round values,
\* larger sums first.
C30_AwardedIsPrefix ==
  (mensal.pc = "done" /\ mensal.outcome = "ranking") =>
    LET rk == mensal.ranking
        k == Min(mensal.top, mensal.n)
    IN
    /\ Len(mensal.awarded) = k
    /\ \A i \in 1..k : mensal.awarded[i] = rk[i]
    /\ Len(rk) = mensal.n
    /\ \A i \in 1..Len(rk) :
         /\ rk[i].pts = mensal.totals[rk[i].team]
         /\ mensal.known[rk[i].team].any =>
              rk[i].pts = Num(mensal.known[rk[i].team].sum)
    /\ \A i, j \in 1..Len(rk) : i < j => ~SmallerSum(rk[i].pts, rk[j].pts)

\* C30 witness: two teams and N = 1: the awarded list is the leader alone,
\* and the leader is the second input team.
C30_Witness ==
  /\ mensal.pc = "done" /\ mensal.outcome = "ranking"
  /\ mensal.top = 1 /\ mensal.n = 2
  /\ mensal.awarded = <<mensal.ranking[1]>>
  /\ mensal.ranking[1].team = 2
  /\ mensal.ranking[1].pts # mensal.ranking[2].pts

\* ---------------------------------------------------------------------------
\* SpecCalendar: the season calendar and its lookup on their own.  A round
\* number arrives and the variant's lookup is applied to its copy of the
\* calendar; look[1] keeps the round and the block the lookup returned.
\* ---------------------------------------------------------------------------
\* partA monthRanges()
monthRanges ==
  << [start |-> 1, end |-> 4],   [start |-> 5, end |-> 8],
     [start |-> 9, end |-> 13],  [start |-> 14, end |-> 18],
     [start |-> 19, end |-> 21], [start |-> 22, end |-> 25],
     [start |-> 26, end |-> 28], [start |-> 29, end |-> 33],
     [start |-> 34, end |-> 38] >>

MONTH_WINDOWS_Overlap ==
  << [start |-> 1, end |-> 4],   [start |-> 5, end |-> 8],
     [start |-> 9, end |-> 13],  [start |-> 13, end |-> 18],
     [start |-> 19, end |-> 21], [start |-> 22, end |-> 25],
     [start |-> 26, end |-> 28], [start |-> 29, end |-> 33],
     [start |-> 34, end |-> 38] >>

\* partC MONTH_WINDOWS
MONTH_WINDOWS ==
  << [start |-> 1, end |-> 4],   [start |-> 5, end |-> 8],
     [start |-> 9, end |-> 13],  [start |-> 14, end |-> 18],
     [start |-> 19, end |-> 21], [start |-> 22, end |-> 25],
     [start |-> 26, end |-> 28], [start |-> 29, end |-> 33],
     [start |-> 34, end |-> 38] >>

\* The copy of the calendar each variant holds
Calendar(v) ==
  CASE v = "partA" -> monthRanges
    [] v = "partC" -> MONTH_WINDOWS
    [] OTHER -> MONTH_BLOCKS

\* What a lookup returns when it returns null
NoBlock == [start |-> 0, end |-> 0]

\* Array.prototype.find(b => r >= b.start && r <= b.end): the first block
\* that holds r, NoBlock (undefined) when none does
find(blocks, r) ==
  LET hits == {i \in DOMAIN blocks : r >= blocks[i].start /\ r <= blocks[i].end}
  IN IF hits = {} THEN NoBlock
     ELSE blocks[CHOOSE i \in hits : \A j \in hits : i <= j]

\* getMonthBlockForRound (srvA), getMonthBlock (srvB, srvC, partB) and
\* windowForRound (partC) end with "|| <calendar>[0]"; currentMonthRange
\* (partA) ends with "|| null".
blockForRound(v, r) ==
  LET found == find(Calendar(v), r) IN
  IF found # NoBlock THEN found
  ELSE IF v = "partA" THEN NoBlock
  ELSE Calendar(v)[1]

InitCalendar ==
  /\ variant \in Variants
  /\ now = 0
  /\ ticks = 0
  /\ accessToken = NoToken
  /\ accessTokenExp = NoExp
  /\ refreshToken = 0
  /\ clientId = FALSE
  /\ bearer = FALSE
  /\ call = [p \in Callers |-> OffCall]
  /\ raced = FALSE
  /\ nextTokenId = 2
  /\ checkResult = "unchecked"
  /\ cache = [k \in CacheKeys |-> NoEntry]
  /\ \E r \in 0..MaxRound :
       look = [p \in Callers |-> IF p = 1 THEN [pc |-> "round", round |-> r]
                                          ELSE OffLookup]
  /\ lastOk = [k \in CacheKeys |-> -1]
  /\ lookups = 0
  /\ mensal = OffMensal

\* The lookup is applied to the round.
LookupBlock ==
  /\ look[1].pc = "round"
  /\ look' = [look EXCEPT ![1] =
       [pc |-> "block", round |-> look[1].round,
        block |-> blockForRound(variant, look[1].round)]]
  /\ UNCHANGED <<mensal, variant, now, ticks, clientVars, cache, lastOk, lookups>>

\* The next round number arrives.
NextRound ==
  /\ look[1].pc = "block"
  /\ \E r \in 0..MaxRound : look' = [look EXCEPT ![1] = [pc |-> "round", round |-> r]]
  /\ UNCHANGED <<mensal, variant, now, ticks, clientVars, cache, lastOk, lookups>>

NextCalendar == LookupBlock \/ NextRound
SpecCalendar == InitCalendar /\ [][NextCalendar]_vars

\* C31: in the calendar copy of every variant each round from 1 to 38 lies in
\* exactly one block, each block has start <= end, the first block starts at
\* 1, the last ends at 38 and each other block starts at the end of the block
\* before it plus one; so a lookup of a round in 1..38 returns a block that
\* holds the round.
C31_CalendarPartitionsSeason ==
  LET cal == Calendar(variant) IN
  /\ \A r \in 1..38 :
       Cardinality({i \in DOMAIN cal : cal[i].start <= r /\ r <= cal[i].end}) = 1
  /\ \A i \in DOMAIN cal : cal[i].start <= cal[i].end
  /\ cal[1].start = 1 /\ cal[Len(cal)].end = 38
  /\ \A i \in 2..Len(cal) : cal[i].start = cal[i - 1].end + 1
  /\ (look[1].pc = "block" /\ look[1].round \in 1..38) =>
       /\ look[1].block.start <= look[1].round
       /\ look[1].round <= look[1].block.end

\* C31 witness: partC has looked up round 38 and got the last window.
C31_Witness ==
  /\ variant = "partC" /\ look[1].pc = "block" /\ look[1].round = 38
  /\ look[1].block = [start |-> 34, end |-> 38]

\* C32: every lookup returns the block that holds the round for a round in
\* 1..38, and the first block (rounds 1 to 4) for a round outside every
\* block.
C32_LookupDefaultsToFirstBlock ==
  look[1].pc = "block" =>
    IF look[1].round \in 1..38
    THEN look[1].block.start <= look[1].round /\ look[1].round <= look[1].block.end
    ELSE look[1].block = [start |-> 1, end |-> 4]

\* ---------------------------------------------------------------------------
\* SpecShared: the cache shared by concurrent requests.  Every caller runs
\* cached lookups; a lookup that awaits its fetch leaves the cache to the
\* other caller's lookups.  The behaviours hold two lookups.
\* ---------------------------------------------------------------------------
InitShared ==
  /\ variant \in {"srvC", "partB"}
  /\ now = 0
  /\ ticks = 0
  /\ accessToken = NoToken
  /\ accessTokenExp = NoExp
  /\ refreshToken = 0
  /\ clientId = FALSE
  /\ bearer = FALSE
  /\ call = [p \in Callers |-> OffCall]
  /\ raced = FALSE
  /\ nextTokenId = 2
  /\ checkResult = "unchecked"
  /\ cache = [k \in CacheKeys |-> NoEntry]
  /\ look = [p \in Callers |-> IdleLookup]
  /\ lastOk = [k \in CacheKeys |-> -1]
  /\ lookups = IF MaxLookups > MaxCallers THEN MaxLookups - MaxCallers ELSE 0
  /\ mensal = OffMensal

SpecShared == InitShared /\ [][NextCache]_vars

\* Lookup p gets its fetch's payload in this step and stores it.
Stores(p) ==
  look[p].pc = "fetch" /\ look'[p].pc = "done" /\ look'[p].result.kind = "value"

\* The keys lookup record l stores under when its fetch returns
KeysOf(l) == IF l.fn = "pts" THEN {KeyOf(l), <<"raw", l.team, l.round>>} ELSE {KeyOf(l)}

\* C33 (as stated): once all concurrent lookups have completed, the cache
\* holds an entry for each looked-up key, and it is the entry written by one
\* of the lookups of that key.
C33_EveryLookedUpKeyCached ==
  (\A p \in Callers : look[p].pc = "done") =>
    \A p \in Callers :
      LET e == cache[KeyOf(look[p])] IN
      /\ e # NoEntry
      /\ \E q \in Callers :
           /\ KeyOf(look[q]) = KeyOf(look[p])
           /\ look[q].result = [kind |-> "value", value |-> e.value]

\* C33 (amended): a lookup whose fetch returns replaces the entries of its
\* own keys by its value and the time of the write, whatever another lookup
\* in flight stored there before, and leaves every other key's entry as it
\* was; a lookup whose fetch fails writes nothing; an entry changes in no
\* other way than by a write to its key or by the read of its key that finds
\* it older than 10 minutes and deletes it.
C33_LastWriterWins ==
  [][/\ \A p \in Callers :
          /\ Stores(p) =>
               LET l == look'[p] IN
               /\ cache'[KeyOf(l)] = [value |-> l.result.value, at |-> now]
               /\ l.fn = "pts" =>
                    LET raw == cache'[<<"raw", l.team, l.round>>] IN
                    raw.at = now /\ extractRoundPoints_partB(raw.value) = l.result.value
               /\ \A k \in CacheKeys \ KeysOf(l) : cache'[k] = cache[k]
          /\ (look[p].pc = "fetch" /\ look'[p].pc = "done"
                /\ look'[p].result.kind = "error") => cache' = cache
     /\ \A k \in CacheKeys :
          cache'[k] # cache[k] =>
            \E p \in Callers :
              \/ Stores(p) /\ k \in KeysOf(look'[p])
              \/ /\ look[p].pc = "idle" /\ look'[p].pc # "idle"
                 /\ k \in KeysOf(look'[p])
                 /\ \/ Expired(cache, k, now) /\ cache'[k] = NoEntry
                    \/ /\ k = KeyOf(look'[p]) /\ look'[p].fn = "pts"
                       /\ cache'[k] = [value |-> look'[p].result.value, at |-> now]]_vars

\* C33 witness: two lookups of the same key were in flight together (no time
\* has passed and each sent its own fetch), they got different payloads, and
\* the entry is the one of the two that a lookup returned.
C33_Witness ==
  /\ lookups - (IF MaxLookups > MaxCallers THEN MaxLookups - MaxCallers ELSE 0) = 2
  /\ now = 0
  /\ \A p \in {1, 2} : look[p].pc = "done" /\ look[p].sent = 1
                        /\ look[p].result.kind = "value"
                        /\ Truthy(look[p].result.value)
  /\ KeyOf(look[1]) = KeyOf(look[2])
  /\ look[1].result.value # look[2].result.value
  /\ cache[KeyOf(look[1])].value \in {look[1].result.value, look[2].result.value}

\* C34: an error that leaves the /mensal handler is answered with a status
\* outside 200..299 and an error label, the "no closed round yet" text with
\* 200 and no error label; a report is answered with 200 as well.
C34_ErrorsAreFailureResponses ==
  mensal.pc = "done" =>
    /\ mensal.outcome = "error" =>
         /\ mensal.response.status \notin 200..299
         /\ mensal.response.body \in {"ERRO", "ok:false"}
    /\ mensal.outcome = "noClosed" =>
         mensal.response = [status |-> 200, body |-> "noClosed"]
    /\ mensal.outcome # "error" =>
         mensal.response.status = 200 /\ mensal.response.body \notin {"ERRO", "ok:false"}

\* C34 witness: partB's round loop threw the error of a body that is not
\* JSON (err.status 200) and the route answered 500 with "ERRO: ...".
C34_Witness ==
  /\ variant = "partB" /\ mensal.pc = "done" /\ mensal.outcome = "error"
  /\ mensal.looked # {} /\ mensal.errStatus = 200
  /\ mensal.response = [status |-> 500, body |-> "ERRO"]

\* C35: for the block of every monthly report srvC produces there is a
\* current round (with some market status) whose report sums the whole
\* block, from block.start to block.end.
C35_CompleteBlockReachable ==
  (variant = "srvC" /\ mensal.pc = "done" /\ mensal.outcome = "ranking") =>
    \E raw \in 0..MaxRound, statusMercado \in MercadoInputs, bolaRolando \in BOOLEAN :
      /\ getMonthBlock(OrOne(raw)).start = mensal.start
      /\ EndRound("srvC", raw, statusMercado, bolaRolando) = mensal.blockEnd

\* ---------------------------------------------------------------------------
\* SpecLiga: srvC serving league requests: one caller runs fetchLiga.
\* ---------------------------------------------------------------------------
InitLiga == InitSolo /\ variant = "srvC"

\* fetchLiga(orderBy): the public league URL is requested first.
StartLiga(p) ==
  /\ call[p].pc = "idle"
  /\ call' = [call EXCEPT ![p] = SendGet(call[p], "getLiga", FALSE, 0)]
  /\ UNCHANGED <<mensal, variant, now, ticks, accessToken, accessTokenExp, refreshToken,
                 clientId, bearer, raced, nextTokenId, checkResult, cacheVars>>

NextLiga ==
  \/ \E p \in Callers : StartLiga(p)
  \/ \E p \in Callers : IdpReply(p)
  \/ \E p \in Callers : GetReply(p)
  \/ Tick

SpecLiga == InitLiga /\ [][NextLiga]_vars

\* C36: fetchLiga sends the authenticated league request only after the
\* public one failed with 401 or 403; after any other failure of the public
\* request (500, a body that is not JSON) the failure is handed to the caller
\* with no authenticated request and no request to the identity provider.
C36_LigaEscalatesOn401Or403Only ==
  \A p \in Callers :
    LET c == call[p] IN
    Len(c.reqs) >= 1 =>
      LET first == c.reqs[1]
          otherFailure == first.status = 500 \/ (first.status = 200 /\ ~first.json)
      IN
      /\ (Len(c.reqs) >= 2 \/ c.idp >= 1) => first.status \in {401, 403}
      /\ otherFailure =>
           /\ Len(c.reqs) = 1 /\ c.idp = 0
           /\ c.pc = "done" /\ c.result.kind # "ok" /\ c.result.req = 1

\* C37: when the first response to an authenticated GET is a failure other
\* than 401 (403, 500), the call ends in that step with the failure of that
\* request: no request goes to the identity provider, no further GET is sent,
\* and the stored token, its expiry and the refresh credential stay as they
\* were.  In srvA, partA and partC it is the only upstream request.
C37_OtherFailuresAreFinal ==
  [][\A p \in Callers :
       LET c == call[p]
           d == call'[p]
           n == Len(c.reqs)
       IN
       (c.pc = "get1" /\ c.auth /\ d # c /\ d.reqs[n].status \in {403, 500}) =>
         /\ d.pc = "done" /\ d.result.kind \notin {"ok", "none"} /\ d.result.req = n
         /\ Len(d.reqs) = n /\ d.idp = c.idp
         /\ variant \in AuthGetVariants => n = 1
         /\ UNCHANGED <<accessToken, accessTokenExp, refreshToken, nextTokenId>>]_vars

\* C37 witness: partC's authenticated GET was answered 403 and the call ended
\* with that failure after its one request.
C37_Witness ==
  /\ variant = "partC" /\ call[1].pc = "done" /\ call[1].auth
  /\ Len(call[1].reqs) = 1 /\ call[1].reqs[1].status = 403
  /\ call[1].reqs[1].auth /\ call[1].idp = 1 /\ call[1].idpForced = 0
  /\ call[1].result.kind = "http"

\* C38: when the ensure-valid-token operation runs while a token is stored
\* whose expiry is more than 60 s ahead, it sends no request to the identity
\* provider and leaves token, expiry and refresh credential as they are: the
\* caller's GET leaves in the same step with the stored token.  As nothing
\* changes, it holds for every further run while the token stays valid.
C38_EnsureValidIsNoOp ==
  [][\A p \in Callers :
       LET c == call[p]
           d == call'[p]
       IN
       (/\ variant \in RefreshVariants
        /\ c.pc \in {"idle", "getPub", "getLiga"} /\ ~c.auth /\ d.auth
        /\ HasTokenAndExpiry /\ ExpiryInstantMs > now + 60000) =>
         /\ d.pc = "get1" /\ d.idp = c.idp
         /\ Len(d.reqs) = Len(c.reqs) + 1
         /\ d.reqs[Len(d.reqs)].auth /\ d.reqs[Len(d.reqs)].token = accessToken.id
         /\ UNCHANGED <<accessToken, accessTokenExp, refreshToken, nextTokenId>>]_vars

\* C38 witness: in partA a second caller started while the token the first
\* caller's refresh stored was valid, and sent its GET with that token
\* without any refresh of its own.
C38_Witness ==
  /\ variant = "partA" /\ call[1].idp = 1
  /\ call[2].pc = "get1" /\ call[2].auth /\ call[2].idp = 0
  /\ accessToken.id >= 2 /\ call[2].seenTok = accessToken
  /\ Len(call[2].reqs) = 1 /\ call[2].reqs[1].token = accessToken.id

\* Some other request than p's has ended with a failed refresh.
RefreshFailedBefore(p) ==
  \E q \in Callers \ {p} : call[q].pc = "done" /\ call[q].result.kind = "auth"

\* C39: a failed refresh is not sticky.  With refresh credential and client
\* id configured, an authenticated request that starts after another request's
\* refresh has failed, and finds no valid token, sends a refresh request
\* again; and when the identity provider answers it with a token whose expiry
\* is more than 60 s ahead, the token is stored and the request's GET leaves
\* with it in the same step.
C39_FailedRefreshNotSticky ==
  [][\A p \in Callers :
       LET c == call[p]
           d == call'[p]
       IN
       (RefreshFailedBefore(p) /\ variant \in RefreshVariants
          /\ refreshToken # 0 /\ clientId) =>
         /\ (/\ c.pc \in {"idle", "getPub", "getLiga"} /\ ~c.auth /\ d.auth
             /\ ~TokenValid(variant, accessToken, accessTokenExp, now)) =>
              (d.pc = "idp1" /\ d.idp = c.idp + 1 /\ d.rtSent = refreshToken)
         /\ (/\ c.pc = "idp1" /\ d # c /\ accessToken' # accessToken
             /\ HasTokenAndExpiry' /\ ExpiryInstantMs' > now + 60000) =>
              /\ d.pc = "get1"
              /\ d.reqs[Len(d.reqs)].auth
              /\ d.reqs[Len(d.reqs)].token = accessToken'.id]_vars

\* C39 witness: the first request ended with a failed refresh; an hour later
\* the second request refreshed again, got a token and sent its GET with it.
C39_Witness ==
  /\ variant \in AuthGetVariants
  /\ call[1].pc = "done" /\ call[1].result.kind = "auth" /\ call[1].seenAt = 0
  /\ call[2].pc = "get1" /\ call[2].seenAt > 0 /\ call[2].idp = 1
  /\ accessToken.id >= 2
  /\ call[2].reqs[1].auth /\ call[2].reqs[1].token = accessToken.id


====
